---- MODULE Spec2Model ----
(***************************************************************************)
(* A model of the Coral chatbot framework: the event bus                    *)
(* (Coral/event_bus.py), the command registry (core/register.py), the       *)
(* permission system (Coral/perm_system.py) and the plugin manager          *)
(* (Coral/plugin_manager/*.py).  Each subsystem has its own specification   *)
(* (SpecBus, SpecReg, SpecPM) over the shared variables.                    *)
(***************************************************************************)
EXTENDS Integers, Sequences, FiniteSets, TLC

\* ---------------------------------------------------------------- bounds
MaxSubs == 3          \* subscribe calls in one run
MaxPublishes == 2     \* publish calls in one run
MaxMiddlewares == 2   \* add_middleware calls in one run
MaxPermOps == 2       \* mutations of the permission store in one run
MaxRegs == 2          \* register_command calls in one run
MaxCrashes == 4       \* recorded crashes of one name in one run
MaxLoadAll == 1       \* load_all_plugins calls in one run
MaxOps == 2           \* load_plugin and unload_plugin calls in one run
MaxResults == 3       \* non-null handler results in one run
MaxConnects == 4      \* connections opened in one run
MaxSegments == 2      \* segments of one inbound message
MaxLayer == 6          \* plugins in the single layer of the loader scenario
MaxRegistryOps == 4    \* direct PluginRegistry operations in one run

\* ---------------------------------------------------- program constants
PLUGINMANAGER_META == 250606
max_concurrent_loads == 5
batch_size == 10

\* ------------------------------------------------------- model universes
Handlers == {"h1", "h2", "h3"}
Priorities == {5, 10}
EventTypes == {"MessageEvent", "GenericEvent", "MessageRequest", "CommandEvent"}
\* the subscribe calls and the publish calls the bus specification draws from
BusSubscriptions ==
    {<<"MessageEvent", "h1", 10>>, <<"MessageEvent", "h2", 5>>,
     <<"MessageEvent", "h3", 5>>, <<"GenericEvent", "h3", 10>>}
BusPublishTypes == {"MessageEvent", "GenericEvent"}
Tasks == {"t1"}
\* the publish coroutines: the callers' and the one of the result worker
AllTasks == Tasks \cup {"worker"}
\* what a handler call can produce: a null return, a legacy string return,
\* a request object, or an exception
HandlerOutcomes == {"None", "str", "MessageRequest", "raise"}
MiddlewareOutcomes == {"pass", "None", "raise"}
Middlewares == {"m1", "m2"}

VARIABLES
    subscribers,             \* EventBus._subscribers: type -> list of (handler, priority)
    middlewares,             \* EventBus._middlewares
    result_queue,            \* EventBus._result_queue
    total_errors,            \* EventBusMetrics.total_errors
    total_events_processed,  \* EventBusMetrics.total_events_processed
    pub,                     \* the publish coroutines: position and locals
    nsub,                    \* number of subscribe calls so far (registration stamp)
    raised,                  \* number of handler and middleware exceptions so far
    nenq,                    \* number of results put on the queue so far (their stamps)
    running,                 \* EventBus._running
    worker,                  \* the _process_results coroutine: position and locals
    dispatched,              \* the results the worker has dispatched, in order
    commands,                \* Register.commands: name -> (handler, permission)
    crash_times,             \* Register.crash_times: type -> name -> count
    last,                    \* the last execute_command call: event and outcome
    nregs,                   \* number of register_command calls so far
    reg_log,                 \* the register_command calls so far, in call order
    registered_perms,        \* PermSystem.registered_perms
    user_perms,              \* PermSystem.user_perms: user -> entries {perm, group}
    group_perms,             \* PermSystem.group_perms: group -> perms
    npermops,                \* number of store mutations so far
    granted,                 \* the (perm, user) pairs granted globally and not revoked
    perm_file,               \* the contents of the permission file on disk
    declared,                \* dependencies in each plugin's __plugin_meta__ on disk
    compatibility,           \* compatibility stamp in each plugin's __plugin_meta__
    dirs,                    \* the plugin directory: "enabled" or "disabled" (suffix)
    entries,                 \* PluginRegistry._plugins: name -> PluginEntry
    loaded_set,              \* PluginRegistry._loaded_plugins
    loaded_modules,          \* PluginLoader._loaded_modules
    is_loading,              \* PluginManager._is_loading
    la,                      \* the load_all_plugins coroutine: position and locals
    lp,                      \* the load_plugin coroutines, one per plugin name
    nloadall,                \* number of load_all_plugins calls so far
    nops,                    \* number of single-plugin manager calls so far
    adapters,                \* AdapterManager.adapters: the registered protocol keys
    am_calls,                \* the handle_message and handle_action calls so far
    live,                    \* the open connections of each driver
    adapter_bots,            \* BaseAdapter.bots of each adapter: the self_ids
    manager_bots,            \* AdapterManager.bots: self_id -> adapter of the Bot
    nconn,                   \* number of connections opened so far
    functions,               \* Register.functions: the registered names
    last_fn,                 \* the last execute_function call and its outcome
    last_chat,               \* the last chat_command call and its outcome
    codec,                   \* the OneBot message under conversion and its forms
    event_handlers           \* Register._event_handlers: event name -> functions

busVars == <<subscribers, middlewares, result_queue, total_errors,
             total_events_processed, pub, nsub, raised, nenq, running, worker,
             dispatched>>
regVars == <<commands, crash_times, last, nregs, reg_log>>
permVars == <<registered_perms, user_perms, group_perms, npermops, granted,
              perm_file>>

pmVars == <<declared, compatibility, dirs, entries, loaded_set, loaded_modules,
            is_loading, la, lp, nloadall, nops>>

adapterVars == <<adapters, am_calls>>
driverVars == <<live, adapter_bots, manager_bots, nconn>>
fnVars == <<functions, last_fn>>
chatVars == <<last_chat>>
codecVars == <<codec>>
eventVars == <<event_handlers>>
\* the subsystems around the bus, the registry and the plugin manager
extVars == <<adapterVars, driverVars, fnVars, chatVars, codecVars, eventVars>>

vars == <<busVars, regVars, permVars, pmVars, extVars>>

\* ============================================================ Event bus

\* list.sort(key=priority, reverse=True): a stable sort, entries of equal
\* priority keep their relative order
SortDescInsert(s, e) ==
    LET k == Cardinality({i \in 1..Len(s) : s[i].priority >= e.priority})
    IN SubSeq(s, 1, k) \o <<e>> \o SubSeq(s, k + 1, Len(s))

SortAscInsert(s, e) ==
    LET k == Cardinality({i \in 1..Len(s) : s[i].priority <= e.priority})
    IN SubSeq(s, 1, k) \o <<e>> \o SubSeq(s, k + 1, Len(s))

RECURSIVE SortAscending(_)
SortAscending(s) ==
    IF Len(s) = 0 THEN s
    ELSE SortAscInsert(SortAscending(SubSeq(s, 1, Len(s) - 1)), s[Len(s)])

RECURSIVE SortByPriority(_)
SortByPriority(s) ==
    IF Len(s) = 0 THEN s
    ELSE SortDescInsert(SortByPriority(SubSeq(s, 1, Len(s) - 1)), s[Len(s)])

\* the subscriber list of an event type; a defaultdict has no key for a type
\* nobody ever subscribed to
Subs(ty) == IF ty \in DOMAIN subscribers THEN subscribers[ty] ELSE <<>>

\* the list object a publish coroutine iterates: the live list of its event
\* type while it is still that object, else the object it started on
IterList(t) ==
    IF pub[t].alias THEN Subs(pub[t].type) ELSE pub[t].snap

\* the result worker before initialize() starts it
IdleWorker == [pc |-> "off", batch |-> <<>>, bi |-> 0, nb |-> 0]

IdleTask ==
    [pc |-> "idle", type |-> "MessageEvent", alias |-> FALSE, snap |-> <<>>,
     idx |-> 0, mi |-> 0, results |-> <<>>, entered |-> <<>>, start |-> <<>>,
     mutated |-> FALSE, outcome |-> "none", nraised |-> 0, mws |-> <<>>]


\* EventBus.subscribe: append, then sort the same list object in place
subscribe_call(ty, h, p) ==
    /\ nsub < MaxSubs
    /\ nsub' = nsub + 1
    /\ subscribers' = [x \in DOMAIN subscribers \cup {ty} |->
           IF x = ty
           THEN SortByPriority(Append(Subs(ty),
                    [handler |-> h, priority |-> p, stamp |-> nsub + 1]))
           ELSE subscribers[x]]
    /\ pub' = [t \in AllTasks |->
           IF pub[t].pc \in {"handlers", "in_handler"} /\ pub[t].type = ty /\ pub[t].alias
           THEN [pub[t] EXCEPT !.mutated = TRUE]
           ELSE pub[t]]

\* EventBus.subscribe called by a client of the bus
subscribe(ty, h, p) ==
    /\ subscribe_call(ty, h, p)
    /\ UNCHANGED <<middlewares, result_queue, total_errors, total_events_processed, raised>>
    /\ UNCHANGED <<nenq, running, worker, dispatched>>
    /\ UNCHANGED <<regVars, permVars, pmVars, extVars>>

\* EventBus.unsubscribe: rebinds the type to a new, filtered list object
unsubscribe(ty, h) ==
    /\ ty \in DOMAIN subscribers
    /\ subscribers' = [subscribers EXCEPT ![ty] =
           SelectSeq(@, LAMBDA e : e.handler # h)]
    /\ pub' = [t \in AllTasks |->
           IF pub[t].pc \in {"handlers", "in_handler"} /\ pub[t].type = ty /\ pub[t].alias
           THEN [pub[t] EXCEPT !.alias = FALSE, !.snap = subscribers[ty]]
           ELSE pub[t]]
    /\ UNCHANGED <<middlewares, result_queue, total_errors, total_events_processed,
                   nsub, raised>>
    /\ UNCHANGED <<nenq, running, worker, dispatched>>
    /\ UNCHANGED <<regVars, permVars, pmVars, extVars>>

\* EventBus.add_middleware
add_middleware(m) ==
    /\ Len(middlewares) < MaxMiddlewares
    /\ middlewares' = Append(middlewares, m)
    /\ UNCHANGED <<subscribers, result_queue, total_errors, total_events_processed,
                   pub, nsub, raised>>
    /\ UNCHANGED <<nenq, running, worker, dispatched>>
    /\ UNCHANGED <<regVars, permVars, pmVars, extVars>>

\* EventBus.convert_to_protocol: a string result becomes a MessageRequest for
\* message, notice and command events, and is dropped for any other event
convert_to_protocol(ty, r) ==
    IF ty \in {"MessageEvent", "NoticeEvent", "CommandEvent"}
    THEN "MessageRequest" ELSE "None"

\* EventBus._enqueue_result for the list of results of one publish
\* each queued item carries the number of items queued before it plus one
RECURSIVE enqueue_result(_, _, _, _)
enqueue_result(q, n, ty, rs) ==
    IF rs = <<>> THEN q
    ELSE LET r == Head(rs)
             processed == IF r = "str" THEN convert_to_protocol(ty, r) ELSE r
         IN IF processed # "None"
            THEN enqueue_result(Append(q, [type |-> processed, seq |-> n + 1]),
                                n + 1, ty, Tail(rs))
            ELSE enqueue_result(q, n, ty, Tail(rs))

\* the publish coroutine t is past the middleware chain: it binds the list
\* of type(event) and runs the handler loop up to its first suspension
EnterHandlers(t, ty) ==
    [pub[t] EXCEPT !.pc = "handlers", !.type = ty,
                   !.alias = (ty \in DOMAIN subscribers), !.snap = <<>>,
                   !.idx = 1, !.results = <<>>, !.entered = <<>>,
                   !.start = Subs(ty), !.mutated = FALSE]

\* the publish coroutine t after the metrics update: at the first middleware,
\* or in the handler loop when there is no middleware
StartedTask(t, ty) ==
    IF middlewares # <<>>
    THEN [IdleTask EXCEPT !.pc = "mw", !.type = ty, !.mi = 1]
    ELSE [EnterHandlers(t, ty) EXCEPT !.outcome = "none", !.nraised = 0, !.mws = <<>>]

\* publish(event): metrics, then the first middleware or the handler loop
publish_begin(t, ty) ==
    /\ pub[t].pc = "idle"
    /\ total_events_processed < MaxPublishes
    /\ total_events_processed' = total_events_processed + 1
    /\ pub' = [pub EXCEPT ![t] = StartedTask(t, ty)]
    /\ UNCHANGED <<subscribers, middlewares, result_queue, total_errors, nsub, raised>>
    /\ UNCHANGED <<nenq, running, worker, dispatched>>
    /\ UNCHANGED <<regVars, permVars, pmVars, extVars>>

\* the middleware chain with a null return taken as "go on with the event"
publish_middleware_ignores_none(t, out) ==
    /\ pub[t].pc = "mw"
    /\ pub[t].mi <= Len(middlewares)
    /\ LET called == Append(pub[t].mws, [name |-> middlewares[pub[t].mi], out |-> out])
       IN CASE out \in {"pass", "None"} ->
              /\ pub' = [pub EXCEPT ![t] =
                     IF pub[t].mi < Len(middlewares)
                     THEN [@ EXCEPT !.mi = @ + 1, !.mws = called]
                     ELSE [EnterHandlers(t, pub[t].type) EXCEPT !.mws = called]]
              /\ UNCHANGED <<total_errors, raised>>
         [] out = "raise" ->
              /\ pub' = [pub EXCEPT ![t] =
                     [IdleTask EXCEPT !.outcome = "mw_error", !.mws = called]]
              /\ total_errors' = total_errors + 1
              /\ raised' = raised + 1
    /\ UNCHANGED <<subscribers, middlewares, result_queue, total_events_processed, nsub>>
    /\ UNCHANGED <<nenq, running, worker, dispatched>>
    /\ UNCHANGED <<regVars, permVars, pmVars, extVars>>

\* one middleware call of publish returns the event, returns null or raises
publish_middleware(t, out) ==
    /\ pub[t].pc = "mw"
    /\ pub[t].mi <= Len(middlewares)
    /\ LET called == Append(pub[t].mws, [name |-> middlewares[pub[t].mi], out |-> out])
       IN CASE out = "pass" ->
              /\ pub' = [pub EXCEPT ![t] =
                     IF pub[t].mi < Len(middlewares)
                     THEN [@ EXCEPT !.mi = @ + 1, !.mws = called]
                     ELSE [EnterHandlers(t, pub[t].type) EXCEPT !.mws = called]]
              /\ UNCHANGED <<total_errors, raised>>
         [] out = "None" ->
              /\ pub' = [pub EXCEPT ![t] =
                     [IdleTask EXCEPT !.outcome = "aborted", !.mws = called]]
              /\ UNCHANGED <<total_errors, raised>>
         [] out = "raise" ->
              /\ pub' = [pub EXCEPT ![t] =
                     [IdleTask EXCEPT !.outcome = "mw_error", !.mws = called]]
              /\ total_errors' = total_errors + 1
              /\ raised' = raised + 1
    /\ UNCHANGED <<subscribers, middlewares, result_queue, total_events_processed, nsub>>
    /\ UNCHANGED <<nenq, running, worker, dispatched>>
    /\ UNCHANGED <<regVars, permVars, pmVars, extVars>>

\* the handler loop of publish takes the next entry of the list and awaits
\* the handler
publish_enter(t) ==
    /\ pub[t].pc = "handlers"
    /\ pub[t].idx <= Len(IterList(t))
    /\ pub' = [pub EXCEPT ![t] =
           [@ EXCEPT !.pc = "in_handler",
                     !.entered = Append(@, IterList(t)[pub[t].idx])]]
    /\ UNCHANGED <<subscribers, middlewares, result_queue, total_errors,
                   total_events_processed, nsub, raised>>
    /\ UNCHANGED <<nenq, running, worker, dispatched>>
    /\ UNCHANGED <<regVars, permVars, pmVars, extVars>>

\* an exception that leaves the awaited handler and is not caught
HandlerExceptionPropagates(task) ==
    [task |-> [IdleTask EXCEPT !.outcome = "raised"],
     errors |-> 0]

\* the except clause of the handler loop: count the error and go on with the
\* next handler
HandlerException(task) ==
    [task |-> [task EXCEPT !.pc = "handlers", !.idx = @ + 1, !.nraised = @ + 1],
     errors |-> 1]

\* the awaited handler returns or raises
publish_return(t, out) ==
    /\ pub[t].pc = "in_handler"
    /\ IF out = "raise"
       THEN /\ pub' = [pub EXCEPT ![t] = HandlerException(pub[t]).task]
            /\ total_errors' = total_errors + HandlerException(pub[t]).errors
            /\ raised' = raised + 1
       ELSE /\ pub' = [pub EXCEPT ![t] =
                  [@ EXCEPT !.pc = "handlers", !.idx = @ + 1,
                            !.results = IF out = "None" THEN @ ELSE Append(@, out)]]
            /\ UNCHANGED <<total_errors, raised>>
    /\ UNCHANGED <<subscribers, middlewares, result_queue, total_events_processed, nsub>>
    /\ UNCHANGED <<nenq, running, worker, dispatched>>
    /\ UNCHANGED <<regVars, permVars, pmVars, extVars>>

\* the handler loop is exhausted: enqueue the results and return
publish_end(t) ==
    /\ pub[t].pc = "handlers"
    /\ pub[t].idx > Len(IterList(t))
    /\ result_queue' = enqueue_result(result_queue, nenq, pub[t].type, pub[t].results)
    /\ nenq' = nenq + (Len(result_queue') - Len(result_queue))
    /\ pub' = [pub EXCEPT ![t] = [IdleTask EXCEPT !.outcome = "returned"]]
    /\ UNCHANGED <<subscribers, middlewares, total_errors, total_events_processed,
                   nsub, raised, running, worker, dispatched>>
    /\ UNCHANGED <<regVars, permVars, pmVars, extVars>>

\* the handler loop of publish t has run to its end
Exhausted(t) ==
    pub[t].pc = "handlers" /\ pub[t].idx > Len(IterList(t))

\* EventBus.initialize: the bus runs and the result worker is started
initialize ==
    /\ ~running
    /\ worker.pc = "off"
    /\ running' = TRUE
    /\ worker' = [pc |-> "collect", batch |-> <<>>, bi |-> 0, nb |-> 0]
    /\ UNCHANGED <<subscribers, middlewares, result_queue, total_errors,
                   total_events_processed, pub, nsub, raised, nenq, dispatched>>
    /\ UNCHANGED <<regVars, permVars, pmVars, extVars>>

\* EventBus.shutdown: the worker task is cancelled where it waits; a publish
\* it is awaiting ends with CancelledError, which no except clause of publish
\* catches
shutdown ==
    /\ running
    /\ running' = FALSE
    /\ worker' = [worker EXCEPT !.pc = "stopped"]
    /\ pub' = [pub EXCEPT !["worker"] =
           IF @.pc = "idle" THEN @ ELSE [IdleTask EXCEPT !.outcome = "cancelled"]]
    /\ UNCHANGED <<subscribers, middlewares, result_queue, total_errors,
                   total_events_processed, nsub, raised, nenq, dispatched>>
    /\ UNCHANGED <<regVars, permVars, pmVars, extVars>>

\* batch collection from a queue that hands out the newest item first
worker_get_newest ==
    /\ worker.pc = "collect"
    /\ Len(worker.batch) < batch_size
    /\ result_queue # <<>>
    /\ result_queue' = SubSeq(result_queue, 1, Len(result_queue) - 1)
    /\ worker' = IF Len(worker.batch) + 1 = batch_size
                 THEN [worker EXCEPT !.pc = "dispatch", !.bi = 1, !.nb = @ + 1,
                          !.batch = Append(@, result_queue[Len(result_queue)])]
                 ELSE [worker EXCEPT !.batch = Append(@, result_queue[Len(result_queue)])]
    /\ UNCHANGED <<subscribers, middlewares, total_errors, total_events_processed,
                   pub, nsub, raised, nenq, running, dispatched>>
    /\ UNCHANGED <<regVars, permVars, pmVars, extVars>>

\* _process_results, batch collection: queue.get() returns the oldest item;
\* a full batch goes to processing
worker_get ==
    /\ worker.pc = "collect"
    /\ Len(worker.batch) < batch_size
    /\ result_queue # <<>>
    /\ result_queue' = Tail(result_queue)
    /\ worker' = IF Len(worker.batch) + 1 = batch_size
                 THEN [worker EXCEPT !.pc = "dispatch", !.bi = 1, !.nb = @ + 1,
                          !.batch = Append(@, Head(result_queue))]
                 ELSE [worker EXCEPT !.batch = Append(@, Head(result_queue))]
    /\ UNCHANGED <<subscribers, middlewares, total_errors, total_events_processed,
                   pub, nsub, raised, nenq, running, dispatched>>
    /\ UNCHANGED <<regVars, permVars, pmVars, extVars>>

\* _process_results, batch collection: queue.get() times out and the batch
\* collected so far goes to processing (with an empty batch the worker sleeps
\* and collects again, which changes nothing)
worker_timeout ==
    /\ worker.pc = "collect"
    /\ worker.batch # <<>>
    /\ worker' = [worker EXCEPT !.pc = "dispatch", !.bi = 1, !.nb = @ + 1]
    /\ UNCHANGED <<subscribers, middlewares, result_queue, total_errors,
                   total_events_processed, pub, nsub, raised, nenq, running, dispatched>>
    /\ UNCHANGED <<regVars, permVars, pmVars, extVars>>

\* the worker after the item at position bi of the batch: the next item, or
\* the next batch
NextItem(w) ==
    IF w.bi < Len(w.batch) THEN [w EXCEPT !.pc = "dispatch", !.bi = @ + 1]
    ELSE [w EXCEPT !.pc = "collect", !.batch = <<>>, !.bi = 0]

\* _process_results that publishes every result, subscribed to or not
HasSubscribersAlways(ty) == TRUE

\* _process_results: result_type in self._subscribers
HasSubscribers(ty) == ty \in DOMAIN subscribers

\* _process_results, batch processing: the next result of the batch is
\* published when its type has a subscriber list, and dropped with a warning
\* otherwise
worker_dispatch ==
    /\ worker.pc = "dispatch"
    /\ worker.bi <= Len(worker.batch)
    /\ pub["worker"].pc = "idle"
    /\ LET item == worker.batch[worker.bi]
       IN IF HasSubscribers(item.type)
          THEN /\ total_events_processed' = total_events_processed + 1
               /\ pub' = [pub EXCEPT !["worker"] = StartedTask("worker", item.type)]
               /\ worker' = [worker EXCEPT !.pc = "publishing"]
               /\ dispatched' = Append(dispatched,
                      [seq |-> item.seq, type |-> item.type, batch |-> worker.nb,
                       how |-> "published"])
          ELSE /\ worker' = NextItem(worker)
               /\ dispatched' = Append(dispatched,
                      [seq |-> item.seq, type |-> item.type, batch |-> worker.nb,
                       how |-> "dropped"])
               /\ UNCHANGED <<total_events_processed, pub>>
    /\ UNCHANGED <<subscribers, middlewares, result_queue, total_errors, nsub, raised,
                   nenq, running>>
    /\ UNCHANGED <<regVars, permVars, pmVars, extVars>>

\* _process_results: the awaited publish has returned; task_done()
worker_resume ==
    /\ worker.pc = "publishing"
    /\ pub["worker"].pc = "idle"
    /\ worker' = NextItem(worker)
    /\ UNCHANGED <<subscribers, middlewares, result_queue, total_errors,
                   total_events_processed, pub, nsub, raised, nenq, running, dispatched>>
    /\ UNCHANGED <<regVars, permVars, pmVars, extVars>>

\* ==================================================== Permission system

Users == {"42", "-1", "Console"}
Groups == {"7", "8", "-1", "ALL"}
PermNames == {"ALL", "permission_system", "p.ping"}


\* PermSystem._check_single_perm without the (perm, "ALL") rule
check_single_perm_no_global(perm, user, group) ==
    IF perm \notin registered_perms THEN TRUE
    ELSE \/ \E e \in user_perms[user] : e.perm = "ALL"
         \/ \E e \in user_perms[user] : e.perm = perm /\ e.group = group
         \/ perm \in group_perms[group]
         \/ perm \in group_perms["-1"]

\* PermSystem._check_single_perm that matches a user entry by permission
\* name only, whatever its group
check_single_perm_any_group(perm, user, group) ==
    IF perm \notin registered_perms THEN TRUE
    ELSE \/ \E e \in user_perms[user] : e.perm = "ALL"
         \/ \E e \in user_perms[user] : e.perm = perm
         \/ perm \in group_perms[group]
         \/ perm \in group_perms["-1"]

\* PermSystem._check_single_perm without the global group rule (group "-1")
check_single_perm_no_global_group(perm, user, group) ==
    IF perm \notin registered_perms THEN TRUE
    ELSE \/ \E e \in user_perms[user] :
                \/ e.perm = "ALL"
                \/ e.perm = perm /\ e.group = "ALL"
         \/ \E e \in user_perms[user] : e.perm = perm /\ e.group = group
         \/ perm \in group_perms[group]

\* PermSystem._check_single_perm(perm_name, user_id, group_id), ids as strings
check_single_perm(perm, user, group) ==
    IF perm \notin registered_perms THEN TRUE
    ELSE \/ \E e \in user_perms[user] :
                \/ e.perm = "ALL"
                \/ e.perm = perm /\ e.group = "ALL"
         \/ \E e \in user_perms[user] : e.perm = perm /\ e.group = group
         \/ perm \in group_perms[group]
         \/ perm \in group_perms["-1"]

\* a permission argument: None, one name, or a list of names
NoPermission == [kind |-> "none", names |-> <<>>]
OnePermission(p) == [kind |-> "str", names |-> <<p>>]
PermissionList(ps) == [kind |-> "list", names |-> ps]

\* PermSystem.check_perm without the Console shortcut
check_perm_no_console(perm, user, group) ==
    IF perm.kind = "list"
    THEN \E i \in 1..Len(perm.names) : check_single_perm(perm.names[i], user, group)
    ELSE check_single_perm(perm.names[1], user, group)

\* PermSystem.check_perm(perm_name, user_id, group_id)
check_perm(perm, user, group) ==
    IF user = "Console" THEN TRUE
    ELSE IF perm.kind = "list"
    THEN \E i \in 1..Len(perm.names) : check_single_perm(perm.names[i], user, group)
    ELSE check_single_perm(perm.names[1], user, group)

\* the permission file after open(perm_file, 'w') and before json.dump has
\* written the store: the previous contents are gone, the new ones are not
\* there
Truncated ==
    [complete |-> FALSE, user_perms |-> [u \in Users |-> {}],
     group_perms |-> [g \in Groups |-> {}]]

\* PermSystem.save_permissions run to its end: the file holds the store
save_permissions(up, gp) ==
    [complete |-> TRUE, user_perms |-> up, group_perms |-> gp]

\* add_perm whose process is killed inside save_permissions, between
\* open(perm_file, 'w') and the end of json.dump
add_perm_killed(p, u, g) ==
    /\ npermops < MaxPermOps
    /\ p \in registered_perms
    /\ IF u = "-1"
       THEN /\ p \notin group_perms[g]
            /\ group_perms' = [group_perms EXCEPT ![g] = @ \cup {p}]
            /\ UNCHANGED user_perms
       ELSE /\ [perm |-> p, group |-> g] \notin user_perms[u]
            /\ user_perms' = [user_perms EXCEPT ![u] = @ \cup {[perm |-> p, group |-> g]}]
            /\ UNCHANGED group_perms
    /\ npermops' = npermops + 1
    /\ granted' = IF g = "ALL" THEN granted \cup {<<p, u>>} ELSE granted
    /\ perm_file' = Truncated
    /\ UNCHANGED registered_perms
    /\ UNCHANGED <<busVars, regVars, pmVars, extVars>>

\* PermSystem.register_perm
register_perm(p) ==
    /\ p \notin registered_perms
    /\ registered_perms' = registered_perms \cup {p}
    /\ UNCHANGED <<user_perms, group_perms, npermops, granted, perm_file>>
    /\ UNCHANGED <<busVars, regVars, pmVars, extVars>>

\* PermSystem.add_perm(perm_name, user_id, group_id): user "-1" addresses the
\* group's own permission list
add_perm(p, u, g) ==
    /\ npermops < MaxPermOps
    /\ p \in registered_perms
    /\ IF u = "-1"
       THEN /\ p \notin group_perms[g]
            /\ group_perms' = [group_perms EXCEPT ![g] = @ \cup {p}]
            /\ UNCHANGED user_perms
       ELSE /\ [perm |-> p, group |-> g] \notin user_perms[u]
            /\ user_perms' = [user_perms EXCEPT ![u] = @ \cup {[perm |-> p, group |-> g]}]
            /\ UNCHANGED group_perms
    /\ npermops' = npermops + 1
    /\ granted' = IF g = "ALL" THEN granted \cup {<<p, u>>} ELSE granted
    /\ perm_file' = save_permissions(user_perms', group_perms')
    /\ UNCHANGED registered_perms
    /\ UNCHANGED <<busVars, regVars, pmVars, extVars>>

\* PermSystem.remove_perm(perm_name, user_id, group_id)
remove_perm(p, u, g) ==
    /\ npermops < MaxPermOps
    /\ IF u = "-1"
       THEN /\ p \in group_perms[g]
            /\ group_perms' = [group_perms EXCEPT ![g] = @ \ {p}]
            /\ UNCHANGED user_perms
       ELSE /\ [perm |-> p, group |-> g] \in user_perms[u]
            /\ user_perms' = [user_perms EXCEPT ![u] = @ \ {[perm |-> p, group |-> g]}]
            /\ UNCHANGED group_perms
    /\ npermops' = npermops + 1
    /\ granted' = IF g = "ALL" THEN granted \ {<<p, u>>} ELSE granted
    /\ perm_file' = save_permissions(user_perms', group_perms')
    /\ UNCHANGED registered_perms
    /\ UNCHANGED <<busVars, regVars, pmVars, extVars>>

\* PermSystem.grant_global_perm
grant_global_perm(p, u) == add_perm(p, u, "ALL")

\* PermSystem.revoke_global_perm
revoke_global_perm(p, u) == remove_perm(p, u, "ALL")

\* PermSystem.clear_user_perms
clear_user_perms(u) ==
    /\ npermops < MaxPermOps
    /\ user_perms[u] # {}
    /\ user_perms' = [user_perms EXCEPT ![u] = {}]
    /\ npermops' = npermops + 1
    /\ granted' = {x \in granted : x[2] # u}
    /\ UNCHANGED <<registered_perms, group_perms>>
    /\ perm_file' = save_permissions(user_perms', group_perms')
    /\ UNCHANGED <<busVars, regVars, pmVars, extVars>>

\* PermSystem.clear_group_perms
clear_group_perms(g) ==
    /\ npermops < MaxPermOps
    /\ group_perms[g] # {}
    /\ group_perms' = [group_perms EXCEPT ![g] = {}]
    /\ npermops' = npermops + 1
    /\ granted' = IF g = "ALL" THEN {x \in granted : x[2] # "-1"} ELSE granted
    /\ UNCHANGED <<registered_perms, user_perms>>
    /\ perm_file' = save_permissions(user_perms', group_perms')
    /\ UNCHANGED <<busVars, regVars, pmVars, extVars>>

\* ============================================================== Register

CommandNames == {"ping", "perms"}
CommandHandlers == {"f1", "f2"}
FunctionNames == {"fn1", "fn2"}
EventNames == {"e1", "e2"}
\* the names the crash ledger may hold a count for
LedgerNames == CommandNames \cup FunctionNames \cup EventNames

NoCall == [command |-> "", user |-> "", group |-> "", result |-> "none",
           handler |-> "none"]


\* register_command that refuses a duplicate name, as register_function does
register_command_keeps_first(c, h, perm) ==
    /\ nregs < MaxRegs
    /\ nregs' = nregs + 1
    /\ reg_log' = Append(reg_log, [command |-> c, handler |-> h, permission |-> perm])
    /\ commands' = [x \in DOMAIN commands \cup {c} |->
           IF x \in DOMAIN commands THEN commands[x]
           ELSE [handler |-> h, permission |-> perm]]
    /\ UNCHANGED <<crash_times, last>>
    /\ UNCHANGED <<busVars, permVars, pmVars, extVars>>

\* Register.register_command: a duplicate name is overwritten
register_command(c, h, perm) ==
    /\ nregs < MaxRegs
    /\ nregs' = nregs + 1
    /\ reg_log' = Append(reg_log, [command |-> c, handler |-> h, permission |-> perm])
    /\ commands' = [x \in DOMAIN commands \cup {c} |->
           IF x = c THEN [handler |-> h, permission |-> perm] ELSE commands[x]]
    /\ UNCHANGED <<crash_times, last>>
    /\ UNCHANGED <<busVars, permVars, pmVars, extVars>>

\* Register.unregister_command applied to the command table
unregister_command(cmds, c) ==
    [x \in DOMAIN cmds \ {c} |-> cmds[x]]

\* the auto-disable test of crash_record with an off-by-one threshold
AutoDisableAfterFour(n) == n > 3

\* Register.crash_record: the entry is unregistered once its counter is 3
AutoDisable(n) == n >= 3

\* truth value of a permission argument (None, "" and [] are false)
Truthy(perm) == perm.kind # "none" /\ perm.names # <<>>

\* Register.execute_command(event) with the outcome of the awaited handler
execute_command_call(c, u, g, out) ==
    /\ IF c \notin DOMAIN commands
       THEN /\ last' = [command |-> c, user |-> u, group |-> g,
                        result |-> "No command found", handler |-> "none"]
            /\ UNCHANGED <<commands, crash_times>>
       ELSE IF Truthy(commands[c].permission)
               /\ ~check_perm(commands[c].permission, u, g)
       THEN /\ last' = [command |-> c, user |-> u, group |-> g,
                        result |-> "Permission denied", handler |-> "none"]
            /\ UNCHANGED <<commands, crash_times>>
       ELSE IF out = "raise"
       THEN /\ commands[c].handler # "perm_command"
            /\ crash_times["command"][c] < MaxCrashes
            /\ crash_times' = [crash_times EXCEPT !["command"][c] = @ + 1]
            /\ commands' = IF AutoDisable(crash_times["command"][c] + 1)
                           THEN unregister_command(commands, c)
                           ELSE commands
            /\ last' = [command |-> c, user |-> u, group |-> g,
                        result |-> "Error executing command",
                        handler |-> commands[c].handler]
       ELSE /\ last' = [command |-> c, user |-> u, group |-> g,
                        result |-> "handler result",
                        handler |-> commands[c].handler]
            /\ UNCHANGED <<commands, crash_times>>
    /\ UNCHANGED <<nregs, reg_log>>

\* Register.execute_command called by the bus or by a client
execute_command(c, u, g, out) ==
    /\ execute_command_call(c, u, g, out)
    /\ UNCHANGED <<busVars, permVars, pmVars, extVars>>

NoFunctionCall == [name |-> "", out |-> "none", result |-> "none", raised |-> "none"]

\* Register.register_function: a duplicate name is refused
register_function(n) ==
    /\ n \notin functions
    /\ functions' = functions \cup {n}
    /\ UNCHANGED last_fn
    /\ UNCHANGED <<busVars, regVars, permVars, pmVars, adapterVars, driverVars, chatVars, codecVars, eventVars>>

\* Register.execute_function(name) with the outcome of the awaited function:
\* an exception of the function is recorded by crash_record and null is
\* returned; a name that is not in the table raises ValueError
execute_function(n, out) ==
    /\ IF n \notin functions
       THEN /\ last_fn' = [name |-> n, out |-> "none", result |-> "none",
                           raised |-> "ValueError"]
            /\ UNCHANGED <<functions, crash_times>>
       ELSE IF out = "raise"
       THEN /\ crash_times["function"][n] < MaxCrashes
            /\ crash_times' = [crash_times EXCEPT !["function"][n] = @ + 1]
            /\ functions' = IF AutoDisable(crash_times["function"][n] + 1)
                            THEN functions \ {n} ELSE functions
            /\ last_fn' = [name |-> n, out |-> out, result |-> "None",
                           raised |-> "none"]
       ELSE /\ last_fn' = [name |-> n, out |-> out, result |-> "result",
                           raised |-> "none"]
            /\ UNCHANGED <<functions, crash_times>>
    /\ UNCHANGED <<commands, last, nregs, reg_log>>
    /\ UNCHANGED <<busVars, permVars, pmVars, adapterVars, driverVars, chatVars, codecVars, eventVars>>

\* ------------------------------------------------------- event listeners

\* the functions registered as event handlers: f belongs to one listener, g
\* to another
EventFunctions == {"f", "g"}

\* the name of the GenericEvent that is published
PublishedName == "e1"

\* the closure register_event creates for (event_name, function)
wrapper ==
    [e \in EventNames |-> [fn \in EventFunctions |->
        IF e = "e1" THEN (IF fn = "f" THEN "wrapper(e1, f)" ELSE "wrapper(e1, g)")
        ELSE (IF fn = "f" THEN "wrapper(e2, f)" ELSE "wrapper(e2, g)")]]

\* the wrappers Register holds for event name e
wrappers(e) == {wrapper[e][fn] : fn \in event_handlers[e]}

\* the event name a wrapper was created for
event_name(w) == CHOOSE e \in EventNames : \E fn \in EventFunctions : wrapper[e][fn] = w

\* Register.register_event(e, listener, fn), default priority 1: refused for
\* a pair that is registered, else the wrapper is stored and subscribed
register_event(e, fn) ==
    /\ fn \notin event_handlers[e]
    /\ event_handlers' = [event_handlers EXCEPT ![e] = @ \cup {fn}]
    /\ subscribe_call("GenericEvent", wrapper[e][fn], 1)
    /\ UNCHANGED <<middlewares, result_queue, total_errors, total_events_processed,
                   raised, nenq, running, worker, dispatched>>
    /\ UNCHANGED <<regVars, permVars, pmVars, adapterVars, driverVars, fnVars,
                   chatVars, codecVars>>

\* the subscriber lists after unsubscribe(GenericEvent, w) for each w in ws
unsubscribe_wrappers(ws) ==
    IF ws = {} \/ "GenericEvent" \notin DOMAIN subscribers
    THEN subscribers
    ELSE [subscribers EXCEPT !["GenericEvent"] =
             SelectSeq(@, LAMBDA x : x.handler \notin ws)]

\* the publish coroutines after these unsubscribe calls: one that iterates
\* the live list of GenericEvent is left with the list object it started on
unsubscribed_tasks(ws) ==
    [t \in AllTasks |->
        IF /\ ws # {}
           /\ "GenericEvent" \in DOMAIN subscribers
           /\ pub[t].pc \in {"handlers", "in_handler"}
           /\ pub[t].type = "GenericEvent"
           /\ pub[t].alias
        THEN [pub[t] EXCEPT !.alias = FALSE, !.snap = subscribers["GenericEvent"]]
        ELSE pub[t]]

\* unregister_event that drops the entry and leaves the bus as it is
unregister_event_forgets_bus(e) ==
    /\ event_handlers' = [event_handlers EXCEPT ![e] = {}]
    /\ UNCHANGED <<subscribers, pub>>

\* Register.unregister_event(listener, e): every wrapper stored for e is
\* unsubscribed and the entry of e is deleted
unregister_event_call(e) ==
    /\ event_handlers' = [event_handlers EXCEPT ![e] = {}]
    /\ subscribers' = unsubscribe_wrappers(wrappers(e))
    /\ pub' = unsubscribed_tasks(wrappers(e))

\* Register.unregister_event called by a client, for a name that has handlers
unregister_event(e) ==
    /\ event_handlers[e] # {}
    /\ unregister_event_call(e)
    /\ UNCHANGED <<middlewares, result_queue, total_errors, total_events_processed,
                   nsub, raised, nenq, running, worker, dispatched>>
    /\ UNCHANGED <<regVars, permVars, pmVars, adapterVars, driverVars, fnVars,
                   chatVars, codecVars>>

\* the wrapper that publish t awaits returns: for an event of another name it
\* does nothing; else it awaits the function, and when the function raises
\* it calls crash_record("event", name, ...), which unregisters the event
\* name once the counter is 3. The wrapper itself returns null.
wrapper_return(t, raises) ==
    /\ pub[t].pc = "in_handler"
    /\ pub[t].type = "GenericEvent"
    /\ LET w == pub[t].entered[Len(pub[t].entered)].handler
           e == event_name(w)
           n == crash_times["event"][e] + 1
           go_on(tasks) == [tasks EXCEPT ![t] =
                               [@ EXCEPT !.pc = "handlers", !.idx = @ + 1]]
       IN IF e = PublishedName /\ raises
          THEN /\ n <= MaxCrashes
               /\ crash_times' = [crash_times EXCEPT !["event"][e] = n]
               /\ IF AutoDisable(n)
                  THEN /\ event_handlers' = [event_handlers EXCEPT ![e] = {}]
                       /\ subscribers' = unsubscribe_wrappers(wrappers(e))
                       /\ pub' = go_on(unsubscribed_tasks(wrappers(e)))
                  ELSE /\ pub' = go_on(pub)
                       /\ UNCHANGED <<subscribers, event_handlers>>
          ELSE /\ pub' = go_on(pub)
               /\ UNCHANGED <<subscribers, event_handlers, crash_times>>
    /\ UNCHANGED <<middlewares, result_queue, total_errors, total_events_processed,
                   nsub, raised, nenq, running, worker, dispatched>>
    /\ UNCHANGED <<commands, last, nregs, reg_log>>
    /\ UNCHANGED <<permVars, pmVars, adapterVars, driverVars, fnVars, chatVars,
                   codecVars>>

\* ======================================================== Plugin manager

Plugins == {"A", "B", "C"}

\* a plugin directory with MaxLayer plugins, for loads of one wide layer
LayerNames == <<"P1", "P2", "P3", "P4", "P5", "P6", "P7", "P8">>
LayerPlugins == {LayerNames[i] : i \in 1..MaxLayer}

\* PluginEntry as register_plugin creates it
NewEntry == [state |-> "unloaded", load_status |-> "none", dependencies_met |-> FALSE]

IdleLoadAll ==
    [pc |-> "idle", layers |-> <<>>, li |-> 0, loaded |-> {}, tasks |-> <<>>,
     failed |-> {}, exec_failed |-> {}, hook_failed |-> {},
     ret |-> "none"]

\* PluginMetadata.get_enabled_plugin_dirs and get_plugin_meta: the plugins
\* load_all_plugins discovers
Discovered == {p \in DOMAIN dirs : dirs[p] = "enabled"}

\* PluginMetadata.build_dependency_graph: an edge plugin -> dependency for
\* every declared dependency that is itself discovered
build_dependency_graph(metas) ==
    [p \in metas |-> declared[p] \cap metas]

\* DependencyGraph.has_cycle: depth-first search with a recursion stack
RECURSIVE dfs(_, _, _, _), dfs_neighbors(_, _, _, _)
dfs(g, node, visited, stack) ==
    dfs_neighbors(g, g[node], visited \cup {node}, stack \cup {node})

dfs_neighbors(g, ns, visited, stack) ==
    IF ns = {} THEN [found |-> FALSE, visited |-> visited]
    ELSE LET n == CHOOSE x \in ns : TRUE
         IN IF n \notin visited
            THEN LET r == dfs(g, n, visited, stack)
                 IN IF r.found THEN r
                    ELSE dfs_neighbors(g, ns \ {n}, r.visited, stack)
            ELSE IF n \in stack
            THEN [found |-> TRUE, visited |-> visited]
            ELSE dfs_neighbors(g, ns \ {n}, visited, stack)

RECURSIVE has_cycle_from(_, _, _)
has_cycle_from(g, nodes, visited) ==
    IF nodes = {} THEN FALSE
    ELSE LET n == CHOOSE x \in nodes : TRUE
         IN IF n \in visited THEN has_cycle_from(g, nodes \ {n}, visited)
            ELSE LET r == dfs(g, n, visited, {})
                 IN r.found \/ has_cycle_from(g, nodes \ {n}, r.visited)

has_cycle(g) == has_cycle_from(g, DOMAIN g, {})

\* the layer loop of topological_sort: in_degree[n] was counted over the
\* edges node -> neighbor of graph, so it is the number of plugins that
\* depend on n; each round emits the zero in-degree nodes and decrements the
\* in-degree of their neighbors
RECURSIVE kahn(_, _, _, _)
kahn(g, in_degree, zero_in_degree, layers) ==
    IF zero_in_degree = {} THEN [layers |-> layers, in_degree |-> in_degree]
    ELSE LET next_degree == [n \in DOMAIN g |->
                 in_degree[n] - Cardinality({m \in zero_in_degree : n \in g[m]})]
             next_zero == {n \in DOMAIN g : in_degree[n] > 0 /\ next_degree[n] = 0}
         IN kahn(g, next_degree, next_zero, Append(layers, zero_in_degree))

\* DependencyGraph.topological_sort: the layers, or DependencyCycleError
topological_sort(g) ==
    IF has_cycle(g) THEN [error |-> TRUE, layers |-> <<>>]
    ELSE LET in_degree == [n \in DOMAIN g |->
                 Cardinality({m \in DOMAIN g : n \in g[m]})]
             r == kahn(g, in_degree, {n \in DOMAIN g : in_degree[n] = 0}, <<>>)
         IN IF \E n \in DOMAIN g : r.in_degree[n] > 0
            THEN [error |-> TRUE, layers |-> <<>>]
            ELSE [error |-> FALSE, layers |-> r.layers]

\* PluginRegistry.register_plugin for a set of names: new names get a fresh
\* entry, known names keep their entry
register_plugins(es, names) ==
    [p \in DOMAIN es \cup names |-> IF p \in DOMAIN es THEN es[p] ELSE NewEntry]

\* PluginRegistry.mark_as_loaded
mark_as_loaded(es, p) ==
    IF p \in DOMAIN es
    THEN [es EXCEPT ![p].state = "loaded", ![p].load_status = "success"]
    ELSE es

\* PluginRegistry.mark_as_error that leaves the state as it was
mark_as_error_keeps_state(es, p) ==
    IF p \in DOMAIN es
    THEN [es EXCEPT ![p].load_status = "failed"]
    ELSE es

\* PluginRegistry.mark_as_error
mark_as_error(es, p) ==
    IF p \in DOMAIN es
    THEN [es EXCEPT ![p].state = "error", ![p].load_status = "failed"]
    ELSE es

\* PluginRegistry.mark_as_unloaded
mark_as_unloaded(es, p) ==
    IF p \in DOMAIN es
    THEN [es EXCEPT ![p].state = "unloaded", ![p].load_status = "none"]
    ELSE es

\* PluginRegistry.is_loaded
is_loaded(p) == p \in DOMAIN entries /\ entries[p].state = "loaded"

\* PluginRegistry.get_loaded_plugins, as names
get_loaded_plugins == {p \in DOMAIN entries : entries[p].state = "loaded"}

\* the dependency test of load_plugin_with_deps left out
no_missing_deps(p, loaded_plugins) == {}

\* PluginLoader.load_plugin_with_deps: the dependencies not in loaded_plugins
missing_deps(p, loaded_plugins) == declared[p] \ loaded_plugins

\* load_all_plugins: all(dep in loaded_plugins for dep in meta.dependencies)
deps_met(p, loaded_plugins) == declared[p] \subseteq loaded_plugins

\* load_all_plugins, preparation of one layer: update_dependencies_met for
\* each plugin of the layer
prepare_layer(es, layer, loaded_plugins) ==
    [p \in DOMAIN es |->
        IF p \in layer
        THEN [es[p] EXCEPT !.dependencies_met = deps_met(p, loaded_plugins)]
        ELSE es[p]]

\* load_all_plugins up to the first gather: discovery, registration, graph,
\* cycle check, layering and the preparation of the first layer
load_all_begin ==
    /\ ~is_loading
    /\ la.pc = "idle"
    /\ nloadall < MaxLoadAll
    /\ nloadall' = nloadall + 1
    /\ LET metas == Discovered
           g == build_dependency_graph(metas)
           es == register_plugins(entries, metas)
           sorted == topological_sort(g)
       IN IF metas = {}
          THEN /\ la' = [IdleLoadAll EXCEPT !.ret = "no plugins"]
               /\ UNCHANGED <<entries, is_loading>>
          ELSE IF has_cycle(g) \/ sorted.error
          THEN /\ la' = [IdleLoadAll EXCEPT !.ret = "cycle"]
               /\ entries' = es
               /\ UNCHANGED is_loading
          ELSE /\ la' = [pc |-> "gather", layers |-> sorted.layers, li |-> 1,
                         loaded |-> {},
                         tasks |-> [p \in sorted.layers[1] |-> "pending"],
                         failed |-> {}, exec_failed |-> {}, hook_failed |-> {},
                         ret |-> "none"]
               /\ entries' = prepare_layer(es, sorted.layers[1], {})
               /\ is_loading' = TRUE
    /\ UNCHANGED <<declared, compatibility, dirs, loaded_set, loaded_modules, lp, nops>>
    /\ UNCHANGED <<busVars, regVars, permVars, extVars>>

\* number of load tasks that hold the loader's semaphore
Running == Cardinality({p \in DOMAIN la.tasks : la.tasks[p] = "running"})

\* what executing a plugin's module registers: the module of plugin A applies
\* on_command("ping", ...) and on_message() once each, the others register
\* nothing
plugin_commands(p) == IF p = "A" THEN {"ping"} ELSE {}
plugin_handlers(p) == IF p = "A" THEN {"h1"} ELSE {}

\* the on_command decorator: Register.register_command(name, ..., wrapper,
\* permission) with no permission
on_command(cmds, p) ==
    [x \in DOMAIN cmds \cup plugin_commands(p) |->
        IF x \in plugin_commands(p)
        THEN [handler |-> "f1", permission |-> NoPermission]
        ELSE cmds[x]]

\* the on_message decorator: event_bus.subscribe(MessageEvent, wrapper, 5)
on_message(subs, p, n) ==
    IF plugin_handlers(p) = {}
    THEN subs
    ELSE [x \in DOMAIN subs \cup {"MessageEvent"} |->
             IF x = "MessageEvent"
             THEN SortByPriority(Append(
                      IF x \in DOMAIN subs THEN subs[x] ELSE <<>>,
                      [handler |-> "h1", priority |-> 5, stamp |-> n + 1]))
             ELSE subs[x]]

\* spec.loader.exec_module(module): the decorators of the module run
exec_module(p) ==
    /\ commands' = on_command(commands, p)
    /\ subscribers' = on_message(subscribers, p, nsub)
    /\ nsub' = IF plugin_handlers(p) = {} THEN nsub ELSE nsub + 1
    /\ pub' = [t \in AllTasks |->
           IF /\ plugin_handlers(p) # {}
              /\ pub[t].pc \in {"handlers", "in_handler"}
              /\ pub[t].type = "MessageEvent" /\ pub[t].alias
           THEN [pub[t] EXCEPT !.mutated = TRUE]
           ELSE pub[t]]
    /\ UNCHANGED <<middlewares, result_queue, total_errors, total_events_processed,
                   raised, nenq, running, worker, dispatched>>
    /\ UNCHANGED <<crash_times, last, nregs, reg_log>>

\* a load task that starts without taking the semaphore
load_task_start_unbounded(p) ==
    /\ la.pc = "gather"
    /\ p \in DOMAIN la.tasks
    /\ la.tasks[p] = "pending"
    /\ la' = [la EXCEPT !.tasks[p] =
           IF p \in la.loaded THEN "ok"
           ELSE IF missing_deps(p, la.loaded) # {} THEN "failed"
           ELSE "running"]
    /\ UNCHANGED <<declared, compatibility, dirs, entries, loaded_set, loaded_modules,
                   is_loading, lp, nloadall, nops>>
    /\ UNCHANGED <<busVars, regVars, permVars, extVars>>

\* load_with_semaphore(p) starts: it takes the semaphore and runs
\* load_plugin_with_deps up to the module execution
load_task_start(p) ==
    /\ la.pc = "gather"
    /\ p \in DOMAIN la.tasks
    /\ la.tasks[p] = "pending"
    /\ Running < max_concurrent_loads
    /\ la' = [la EXCEPT !.tasks[p] =
           IF p \in la.loaded THEN "ok"
           ELSE IF missing_deps(p, la.loaded) # {} THEN "failed"
           ELSE "running"]
    /\ UNCHANGED <<declared, compatibility, dirs, entries, loaded_set, loaded_modules,
                   is_loading, lp, nloadall, nops>>
    /\ UNCHANGED <<busVars, regVars, permVars, extVars>>

\* the module execution of load task p ends: on success its decorators have
\* run and the module is cached; the semaphore is released
load_task_finish(p, ok) ==
    /\ la.pc = "gather"
    /\ p \in DOMAIN la.tasks
    /\ la.tasks[p] = "running"
    /\ la' = [la EXCEPT !.tasks[p] = IF ok THEN "ok" ELSE "failed",
                         !.exec_failed = IF ok THEN @ ELSE @ \cup {p}]
    /\ loaded_modules' = IF ok THEN loaded_modules \cup {p} ELSE loaded_modules
    /\ IF ok THEN exec_module(p) ELSE UNCHANGED <<busVars, regVars>>
    /\ UNCHANGED <<declared, compatibility, dirs, entries, loaded_set, is_loading,
                   lp, nloadall, nops>>
    /\ UNCHANGED <<permVars, extVars>>

\* the module execution of load task p ends without error and one of the
\* module's load hooks raises: _call_load_hooks logs the exception and goes
\* on, _load_plugin_module returns the module, the semaphore is released
load_task_hook_raises(p) ==
    /\ la.pc = "gather"
    /\ p \in DOMAIN la.tasks
    /\ la.tasks[p] = "running"
    /\ la' = [la EXCEPT !.tasks[p] = "ok", !.hook_failed = @ \cup {p}]
    /\ loaded_modules' = loaded_modules \cup {p}
    /\ exec_module(p)
    /\ UNCHANGED <<declared, compatibility, dirs, entries, loaded_set, is_loading,
                   lp, nloadall, nops>>
    /\ UNCHANGED <<permVars, extVars>>

\* the results of one layer processed with every plugin taken as loaded
process_results_all_loaded(es, tasks) ==
    [p \in DOMAIN es |->
        IF p \in DOMAIN tasks THEN mark_as_loaded(es, p)[p] ELSE es[p]]

\* load_all_plugins, "Process results": mark_as_loaded for each success and
\* mark_as_error for each failure of the layer
process_results(es, tasks) ==
    [p \in DOMAIN es |->
        IF p \in DOMAIN tasks
        THEN IF tasks[p] = "ok" THEN mark_as_loaded(es, p)[p]
             ELSE mark_as_error(es, p)[p]
        ELSE es[p]]

\* load_all_plugins going on as soon as one load of the layer has ended
load_layer_end_first_completed ==
    /\ la.pc = "gather"
    /\ \E p \in DOMAIN la.tasks : la.tasks[p] \in {"ok", "failed"}
    /\ LET oks == {p \in DOMAIN la.tasks : la.tasks[p] = "ok"}
           fails == {p \in DOMAIN la.tasks : la.tasks[p] = "failed"}
           loaded_plugins == la.loaded \cup oks
           es == process_results(entries, la.tasks)
       IN /\ loaded_set' = (loaded_set \cup (oks \cap DOMAIN entries))
                               \ (fails \cap DOMAIN entries)
          /\ IF la.li < Len(la.layers)
             THEN /\ la' = [la EXCEPT !.li = @ + 1, !.loaded = loaded_plugins,
                                      !.tasks = [p \in la.layers[la.li + 1] |-> "pending"],
                                      !.failed = @ \cup fails]
                  /\ entries' = prepare_layer(es, la.layers[la.li + 1], loaded_plugins)
                  /\ UNCHANGED is_loading
             ELSE /\ la' = [la EXCEPT !.pc = "idle", !.loaded = loaded_plugins,
                                      !.tasks = <<>>, !.failed = @ \cup fails,
                                      !.ret = "loaded"]
                  /\ entries' = es
                  /\ is_loading' = FALSE
    /\ UNCHANGED <<declared, compatibility, dirs, loaded_modules, lp, nloadall, nops>>
    /\ UNCHANGED <<busVars, regVars, permVars, extVars>>

\* gather returns: the results of the layer are processed, and the next
\* layer is prepared and started or load_all_plugins returns
load_layer_end ==
    /\ la.pc = "gather"
    /\ \A p \in DOMAIN la.tasks : la.tasks[p] \in {"ok", "failed"}
    /\ LET oks == {p \in DOMAIN la.tasks : la.tasks[p] = "ok"}
           fails == {p \in DOMAIN la.tasks : la.tasks[p] = "failed"}
           loaded_plugins == la.loaded \cup oks
           es == process_results(entries, la.tasks)
       IN /\ loaded_set' = (loaded_set \cup (oks \cap DOMAIN entries))
                               \ (fails \cap DOMAIN entries)
          /\ IF la.li < Len(la.layers)
             THEN /\ la' = [la EXCEPT !.li = @ + 1, !.loaded = loaded_plugins,
                                      !.tasks = [p \in la.layers[la.li + 1] |-> "pending"],
                                      !.failed = @ \cup fails]
                  /\ entries' = prepare_layer(es, la.layers[la.li + 1], loaded_plugins)
                  /\ UNCHANGED is_loading
             ELSE /\ la' = [la EXCEPT !.pc = "idle", !.loaded = loaded_plugins,
                                      !.tasks = <<>>, !.failed = @ \cup fails,
                                      !.ret = "loaded"]
                  /\ entries' = es
                  /\ is_loading' = FALSE
    /\ UNCHANGED <<declared, compatibility, dirs, loaded_modules, lp, nloadall, nops>>
    /\ UNCHANGED <<busVars, regVars, permVars, extVars>>

\* PluginManager.load_plugin(p) up to the module execution: directory,
\* compatibility, dependencies, registration, and the snapshot
\* set(registry.get_loaded_plugins()), which raises TypeError (PluginEntry is
\* an unhashable dataclass) unless no plugin is loaded
load_plugin_begin(p) ==
    /\ nops < MaxOps
    /\ lp[p] = "idle"
    /\ nops' = nops + 1
    /\ IF \/ dirs[p] # "enabled"
          \/ compatibility[p] < PLUGINMANAGER_META
          \/ \E d \in declared[p] : ~is_loaded(d)
       THEN UNCHANGED <<entries, loaded_set, lp>>
       ELSE LET es == register_plugins(entries, {p})
            IN IF get_loaded_plugins # {}
               THEN /\ entries' = es
                    /\ UNCHANGED <<loaded_set, lp>>
               ELSE IF missing_deps(p, {}) # {}
               THEN /\ entries' = mark_as_error(es, p)
                    /\ loaded_set' = loaded_set \ {p}
                    /\ UNCHANGED lp
               ELSE /\ entries' = es
                    /\ lp' = [lp EXCEPT ![p] = "running"]
                    /\ UNCHANGED loaded_set
    /\ UNCHANGED <<declared, compatibility, dirs, loaded_modules, is_loading, la, nloadall>>
    /\ UNCHANGED <<busVars, regVars, permVars, extVars>>

\* the module execution of load_plugin(p) ends and the result is recorded
load_plugin_finish(p, ok) ==
    /\ lp[p] = "running"
    /\ lp' = [lp EXCEPT ![p] = "idle"]
    /\ IF ok
       THEN /\ loaded_modules' = loaded_modules \cup {p}
            /\ entries' = mark_as_loaded(entries, p)
            /\ loaded_set' = IF p \in DOMAIN entries THEN loaded_set \cup {p} ELSE loaded_set
       ELSE /\ entries' = mark_as_error(entries, p)
            /\ loaded_set' = loaded_set \ {p}
            /\ UNCHANGED loaded_modules
    /\ IF ok THEN exec_module(p) ELSE UNCHANGED <<busVars, regVars>>
    /\ UNCHANGED <<declared, compatibility, dirs, is_loading, la, nloadall, nops>>
    /\ UNCHANGED <<permVars, extVars>>

\* PluginManager.unload_plugin(p): refused while a loaded plugin depends on
\* p; PluginLoader.unload_plugin drops the module from the cache, and nothing
\* is removed from the Register or the event bus
unload_plugin(p) ==
    /\ nops < MaxOps
    /\ nops' = nops + 1
    /\ IF is_loaded(p) /\ ~\E q \in get_loaded_plugins : p \in declared[q]
       THEN /\ loaded_modules' = loaded_modules \ {p}
            /\ entries' = mark_as_unloaded(entries, p)
            /\ loaded_set' = loaded_set \ {p}
       ELSE UNCHANGED <<entries, loaded_set, loaded_modules>>
    /\ UNCHANGED <<declared, compatibility, dirs, is_loading, la, lp, nloadall>>
    /\ UNCHANGED <<busVars, regVars, permVars, extVars>>

\* PluginRegistry.mark_as_disabled: the state is set first, so the is_loaded
\* test that follows it in the code never holds
mark_as_disabled(es, p) ==
    IF p \in DOMAIN es
    THEN [es EXCEPT ![p].state = "disabled"]
    ELSE es

\* PluginRegistry.mark_as_enabled
mark_as_enabled(es, p) ==
    IF p \in DOMAIN es
    THEN [es EXCEPT ![p].state = "enabled"]
    ELSE es

\* PluginManager.enable_plugin(p): the directory loses its ".disabled"
\* suffix and the entry is marked; nothing is loaded
enable_plugin(p) ==
    /\ nops < MaxOps
    /\ nops' = nops + 1
    /\ IF dirs[p] = "disabled"
       THEN /\ dirs' = [dirs EXCEPT ![p] = "enabled"]
            /\ entries' = mark_as_enabled(entries, p)
       ELSE UNCHANGED <<dirs, entries>>
    /\ UNCHANGED <<declared, compatibility, loaded_set, loaded_modules, is_loading,
                   la, lp, nloadall>>
    /\ UNCHANGED <<busVars, regVars, permVars, extVars>>

\* disable_plugin that renames and marks without unloading
disable_plugin_without_unload(p) ==
    /\ nops < MaxOps
    /\ nops' = nops + 1
    /\ IF dirs[p] # "enabled"
       THEN UNCHANGED <<dirs, entries>>
       ELSE /\ dirs' = [dirs EXCEPT ![p] = "disabled"]
            /\ entries' = mark_as_disabled(entries, p)
    /\ UNCHANGED <<declared, compatibility, loaded_set, loaded_modules, is_loading,
                   la, lp, nloadall>>
    /\ UNCHANGED <<busVars, regVars, permVars, extVars>>

\* PluginManager.disable_plugin(p): a loaded plugin is unloaded first, and a
\* refused unload ends the call; then the directory gets the ".disabled"
\* suffix and the entry is marked
disable_plugin(p) ==
    /\ nops < MaxOps
    /\ nops' = nops + 1
    /\ IF dirs[p] # "enabled"
       THEN UNCHANGED <<dirs, entries, loaded_set, loaded_modules>>
       ELSE IF is_loaded(p) /\ \E q \in get_loaded_plugins : p \in declared[q]
       THEN UNCHANGED <<dirs, entries, loaded_set, loaded_modules>>
       ELSE /\ dirs' = [dirs EXCEPT ![p] = "disabled"]
            /\ entries' = mark_as_disabled(
                   IF is_loaded(p) THEN mark_as_unloaded(entries, p) ELSE entries, p)
            /\ loaded_modules' = IF is_loaded(p) THEN loaded_modules \ {p}
                                 ELSE loaded_modules
            /\ loaded_set' = IF is_loaded(p) THEN loaded_set \ {p} ELSE loaded_set
    /\ UNCHANGED <<declared, compatibility, is_loading, la, lp, nloadall>>
    /\ UNCHANGED <<busVars, regVars, permVars, extVars>>

\* ------------------------------------------------ PluginRegistry operations
\* The registry's public operations, called directly on the registry object.
\* A call that leaves the registry as it is is a stuttering step.

\* PluginRegistry.register_plugin(p)
registry_register_plugin(p) ==
    /\ nops < MaxRegistryOps
    /\ nops' = nops + 1
    /\ entries' = register_plugins(entries, {p})
    /\ entries' # entries
    /\ UNCHANGED <<declared, compatibility, dirs, loaded_set, loaded_modules,
                   is_loading, la, lp, nloadall>>
    /\ UNCHANGED <<busVars, regVars, permVars, extVars>>

\* PluginRegistry.mark_as_loaded(p): state, load status and _loaded_plugins
registry_mark_as_loaded(p) ==
    /\ nops < MaxRegistryOps
    /\ nops' = nops + 1
    /\ entries' = mark_as_loaded(entries, p)
    /\ loaded_set' = IF p \in DOMAIN entries THEN loaded_set \cup {p} ELSE loaded_set
    /\ <<entries', loaded_set'>> # <<entries, loaded_set>>
    /\ UNCHANGED <<declared, compatibility, dirs, loaded_modules, is_loading, la,
                   lp, nloadall>>
    /\ UNCHANGED <<busVars, regVars, permVars, extVars>>

\* PluginRegistry.mark_as_unloaded(p)
registry_mark_as_unloaded(p) ==
    /\ nops < MaxRegistryOps
    /\ nops' = nops + 1
    /\ entries' = mark_as_unloaded(entries, p)
    /\ loaded_set' = IF p \in DOMAIN entries THEN loaded_set \ {p} ELSE loaded_set
    /\ <<entries', loaded_set'>> # <<entries, loaded_set>>
    /\ UNCHANGED <<declared, compatibility, dirs, loaded_modules, is_loading, la,
                   lp, nloadall>>
    /\ UNCHANGED <<busVars, regVars, permVars, extVars>>

\* PluginRegistry.mark_as_error(p)
registry_mark_as_error(p) ==
    /\ nops < MaxRegistryOps
    /\ nops' = nops + 1
    /\ entries' = mark_as_error(entries, p)
    /\ loaded_set' = IF p \in DOMAIN entries THEN loaded_set \ {p} ELSE loaded_set
    /\ <<entries', loaded_set'>> # <<entries, loaded_set>>
    /\ UNCHANGED <<declared, compatibility, dirs, loaded_modules, is_loading, la,
                   lp, nloadall>>
    /\ UNCHANGED <<busVars, regVars, permVars, extVars>>

\* PluginRegistry.mark_as_disabled(p): _loaded_plugins is left as it is, the
\* is_loaded test comes after the state has been overwritten
registry_mark_as_disabled(p) ==
    /\ nops < MaxRegistryOps
    /\ nops' = nops + 1
    /\ entries' = mark_as_disabled(entries, p)
    /\ entries' # entries
    /\ UNCHANGED <<declared, compatibility, dirs, loaded_set, loaded_modules,
                   is_loading, la, lp, nloadall>>
    /\ UNCHANGED <<busVars, regVars, permVars, extVars>>

\* PluginRegistry.mark_as_enabled(p)
registry_mark_as_enabled(p) ==
    /\ nops < MaxRegistryOps
    /\ nops' = nops + 1
    /\ entries' = mark_as_enabled(entries, p)
    /\ entries' # entries
    /\ UNCHANGED <<declared, compatibility, dirs, loaded_set, loaded_modules,
                   is_loading, la, lp, nloadall>>
    /\ UNCHANGED <<busVars, regVars, permVars, extVars>>

\* list(reversed(load_layers))
Reversed(s) == [i \in 1..Len(s) |-> s[Len(s) + 1 - i]]

\* the orders in which a set can be listed, each element a batch of its own
Listings(S) ==
    {s \in [1..Cardinality(S) -> {{p} : p \in S}] :
        \A i, j \in 1..Cardinality(S) : i # j => s[i] # s[j]}

\* unload_all_plugins: the batches in the order they are unloaded: the
\* reversed layers of topological_sort over the loaded plugins, or, when
\* topological_sort raises, the loaded plugins in the registry's order
unload_orders(loaded) ==
    LET sorted == topological_sort(build_dependency_graph(loaded))
    IN IF sorted.error THEN Listings(loaded) ELSE {Reversed(sorted.layers)}

\* unload_all_plugins, the unload loop: unload_plugin for each plugin of each
\* batch, refused while a plugin that is still loaded depends on it; the
\* value is the set of plugins that are still loaded at the end
RECURSIVE unload_layers(_, _)
unload_layers(layers, still) ==
    IF layers = <<>> THEN still
    ELSE LET refused == {p \in Head(layers) \cap still :
                            \E q \in still : p \in declared[q]}
         IN unload_layers(Tail(layers), still \ (Head(layers) \ refused))

\* PluginManager.unload_all_plugins() with at least one loaded plugin: every
\* plugin whose unload was not refused leaves the loader's cache, and the
\* registry is cleared
unload_all_plugins ==
    /\ nops < MaxRegistryOps
    /\ nops' = nops + 1
    /\ get_loaded_plugins # {}
    /\ \E order \in unload_orders(get_loaded_plugins) :
           /\ loaded_modules' = loaded_modules \
                  (get_loaded_plugins \ unload_layers(order, get_loaded_plugins))
           /\ entries' = <<>>
           /\ loaded_set' = {}
    /\ UNCHANGED <<declared, compatibility, dirs, is_loading, la, lp, nloadall>>
    /\ UNCHANGED <<busVars, regVars, permVars, extVars>>

\* ======================================================= Adapter manager

\* the platform names requests carry and the protocol keys adapters register
Platforms == {"OneBotV11", "onebotv11", "qq"}
AdapterKeys == {"onebotv11", "console"}

\* str.lower on the platform names
Lower(s) == IF s = "OneBotV11" THEN "onebotv11" ELSE s

\* what the awaited adapter method can do: return a response, return null,
\* raise, or run past the request timeout
AdapterOutcomes == {"BotResponse", "None", "raise", "timeout"}

\* AdapterManager.register_adapter
register_adapter(k) ==
    /\ k \notin adapters
    /\ adapters' = adapters \cup {k}
    /\ UNCHANGED am_calls
    /\ UNCHANGED <<busVars, regVars, permVars, pmVars, driverVars, fnVars, chatVars, codecVars, eventVars>>

\* the handler the publish coroutine t is awaiting
Awaited(t) == pub[t].entered[Len(pub[t].entered)].handler

\* the awaited handler of publish t returns result r to the handler loop
HandlerReturns(t, r) ==
    [pub EXCEPT ![t] =
        [@ EXCEPT !.pc = "handlers", !.idx = @ + 1,
                  !.results = IF r = "None" THEN @ ELSE Append(@, r)]]

\* the value handle_message and handle_action return once the adapter method
\* has been awaited under request_context and _execute_with_timeout: its
\* result, or null after asyncio.TimeoutError or any other exception
AdapterResult(out) == IF out \in {"raise", "timeout"} THEN "None" ELSE out

\* AdapterManager.handle_message(message), awaited by publish t
handle_message(t, platform, out) ==
    /\ pub[t].pc = "in_handler"
    /\ Awaited(t) = "handle_message"
    /\ LET matched == Lower(platform) \in adapters
           result == IF matched THEN AdapterResult(out) ELSE "None"
       IN /\ am_calls' = Append(am_calls,
                 [handler |-> "handle_message", platform |-> platform,
                  matched |-> matched,
                  called |-> IF matched THEN "handle_outgoing_message" ELSE "none",
                  out |-> IF matched THEN out ELSE "none",
                  result |-> result, errors |-> total_errors])
          /\ pub' = HandlerReturns(t, result)
    /\ UNCHANGED <<adapters, driverVars, fnVars, chatVars, codecVars, eventVars>>
    /\ UNCHANGED <<subscribers, middlewares, result_queue, total_errors,
                   total_events_processed, nsub, raised, nenq, running, worker,
                   dispatched>>
    /\ UNCHANGED <<regVars, permVars, pmVars>>

\* AdapterManager.handle_action(action), awaited by publish t: the request
\* id is formatted from action.action_id, an attribute ActionRequest does
\* not have, and the AttributeError is caught by the except clause before the
\* adapter method is called
handle_action(t, platform) ==
    /\ pub[t].pc = "in_handler"
    /\ Awaited(t) = "handle_action"
    /\ LET matched == Lower(platform) \in adapters
       IN /\ am_calls' = Append(am_calls,
                 [handler |-> "handle_action", platform |-> platform,
                  matched |-> matched, called |-> "none", out |-> "none",
                  result |-> "None", errors |-> total_errors])
          /\ pub' = HandlerReturns(t, "None")
    /\ UNCHANGED <<adapters, driverVars, fnVars, chatVars, codecVars, eventVars>>
    /\ UNCHANGED <<subscribers, middlewares, result_queue, total_errors,
                   total_events_processed, nsub, raised, nenq, running, worker,
                   dispatched>>
    /\ UNCHANGED <<regVars, permVars, pmVars>>

\* ================================================================ Drivers

\* the drivers that report connections: the reverse WebSocket server, whose
\* route accepts any number of clients, and the console
Drivers == {"reversews", "console"}
Connections == {"c1", "c2", "c3"}

\* BaseDriver.self_id: config.get("self_id", "unknown"), "Console" for the
\* console driver
self_id(d) == IF d = "console" THEN "Console" ELSE "unknown"

\* the adapter DriverManager.load_drivers hands to the driver: the one
\* registered under the driver's PROTOCOL
adapter_of(d) == IF d = "console" THEN "console" ELSE "onebotv11"

\* BaseAdapter.create_bot_for_driver: a Bot is added to the adapter's
\* directory and to the global one unless the adapter has one for self_id
create_bot_for_driver(d) ==
    IF self_id(d) \notin adapter_bots[adapter_of(d)]
    THEN /\ adapter_bots' = [adapter_bots EXCEPT ![adapter_of(d)] = @ \cup {self_id(d)}]
         /\ manager_bots' = [x \in DOMAIN manager_bots \cup {self_id(d)} |->
                IF x = self_id(d) THEN adapter_of(d) ELSE manager_bots[x]]
    ELSE UNCHANGED <<adapter_bots, manager_bots>>

\* BaseAdapter.remove_bot_for_driver: the Bot is deleted from the global
\* directory and from the adapter's directory if the adapter has it
remove_bot_for_driver(d) ==
    IF self_id(d) \in adapter_bots[adapter_of(d)]
    THEN /\ adapter_bots' = [adapter_bots EXCEPT ![adapter_of(d)] = @ \ {self_id(d)}]
         /\ manager_bots' = [x \in DOMAIN manager_bots \ {self_id(d)} |-> manager_bots[x]]
    ELSE UNCHANGED <<adapter_bots, manager_bots>>

\* a connection of driver d opens: ReversewsDriver._handle_connection
\* accepts a socket, the ConsoleDriver is constructed; on_connect is called
driver_connect(d, c) ==
    /\ nconn < MaxConnects
    /\ c \notin live[d]
    /\ d = "console" => live[d] = {}
    /\ nconn' = nconn + 1
    /\ live' = [live EXCEPT ![d] = @ \cup {c}]
    /\ create_bot_for_driver(d)
    /\ UNCHANGED <<busVars, regVars, permVars, pmVars, adapterVars, fnVars, chatVars, codecVars, eventVars>>

\* a connection of driver d closes: the finally clause of
\* _handle_connection, ConsoleDriver.stop; on_disconnect is called
driver_disconnect(d, c) ==
    /\ c \in live[d]
    /\ live' = [live EXCEPT ![d] = @ \ {c}]
    /\ remove_bot_for_driver(d)
    /\ UNCHANGED nconn
    /\ UNCHANGED <<busVars, regVars, permVars, pmVars, adapterVars, fnVars, chatVars, codecVars, eventVars>>

\* ========================================================== Chat commands

\* the plain texts of the message events: a command, a command after
\* leading blanks, the bare prefix, and ordinary chat
Texts == {"!ping", "  !ping", "!", "ping"}

\* str.strip of the plain text
Strip(text) == IF text = "  !ping" THEN "!ping" ELSE text

\* raw_message.startswith('!')
StartsWithBang(raw) == raw \in {"!ping", "!"}

\* ChatCommand._parse_command: the first word after the prefix
parse_command(raw) == IF raw = "!ping" THEN "ping" ELSE ""

NoChat == [text |-> "", user |-> "", group |-> "", holds_execute |-> FALSE,
           executed |-> FALSE, reply |-> "none"]

\* the permission chat_command asks check_perm for
ChatPermission == PermissionList(<<"chat_command", "chat_command.execute">>)

\* ChatCommand.chat_command(message) with the outcome of the command handler,
\* should one be awaited
chat_command(u, g, text, out) ==
    LET raw == Strip(text)
        call == [text |-> text, user |-> u, group |-> g,
                 holds_execute |-> check_perm(OnePermission("chat_command.execute"), u, g),
                 executed |-> FALSE, reply |-> "None"]
    IN /\ IF ~StartsWithBang(raw) \/ ~check_perm(ChatPermission, u, g)
          THEN /\ last_chat' = call
               /\ UNCHANGED regVars
          ELSE IF parse_command(raw) = ""
          THEN /\ last_chat' = [call EXCEPT !.reply = "Error: Empty command"]
               /\ UNCHANGED regVars
          ELSE /\ execute_command_call(parse_command(raw), u, g, out)
               /\ last_chat' = [call EXCEPT !.executed = TRUE, !.reply = last'.result]
       /\ UNCHANGED <<busVars, permVars, pmVars, adapterVars, driverVars, fnVars, codecVars, eventVars>>

\* ====================================================== OneBot v11 adapter

\* the text, image and at segments a OneBot implementation sends: an image
\* carries its url, with or without the file name
InboundSegments ==
    {[type |-> "text", data |-> [text |-> v]] : v \in {"hi", "!ping"}}
    \cup {[type |-> "image", data |-> [file |-> f, url |-> u]] :
              f \in {"a.png"}, u \in {"http://x/a", "http://x/b"}}
    \cup {[type |-> "image", data |-> [url |-> u]] : u \in {"http://x/a"}}
    \cup {[type |-> "at", data |-> [qq |-> q]] : q \in {"10001", "all"}}

\* the inbound messages: up to MaxSegments segments
InboundMessages ==
    UNION {[1..n -> InboundSegments] : n \in 1..MaxSegments}

NoMessage == [pc |-> "idle", inbound |-> <<>>, chain |-> <<>>, outbound |-> <<>>]

\* one branch of the segment loop of _handle_message_event, with the
\* MessageSegment constructors text, image and at
decode_segment(seg) ==
    IF seg.type = "text" THEN [type |-> "text", data |-> seg.data.text]
    ELSE IF seg.type = "image"
    THEN [type |-> "image",
          data |-> [url |-> seg.data.url, width |-> "None", height |-> "None"]]
    ELSE [type |-> "at", data |-> [user_id |-> seg.data.qq]]

\* one branch of the segment loop of handle_outgoing_message
encode_segment(seg) ==
    IF seg.type = "text" THEN [type |-> "text", data |-> [text |-> seg.data]]
    ELSE IF seg.type = "image"
    THEN [type |-> "image", data |-> [file |-> seg.data.url]]
    ELSE [type |-> "at", data |-> [qq |-> seg.data.user_id]]

\* Onebotv11Adapter._handle_message_event: the message chain of the event
handle_message_event(msg) ==
    /\ codec.pc = "idle"
    /\ codec' = [pc |-> "decoded", inbound |-> msg,
                 chain |-> [i \in 1..Len(msg) |-> decode_segment(msg[i])],
                 outbound |-> <<>>]
    /\ UNCHANGED <<busVars, regVars, permVars, pmVars, adapterVars, driverVars,
                   fnVars, chatVars, eventVars>>

\* Onebotv11Adapter.handle_outgoing_message for a request that carries the
\* chain of the event, at_sender not set: the message of the send_msg call
handle_outgoing_message ==
    /\ codec.pc = "decoded"
    /\ codec' = [codec EXCEPT !.pc = "encoded",
                     !.outbound = [i \in 1..Len(codec.chain) |->
                                      encode_segment(codec.chain[i])]]
    /\ UNCHANGED <<busVars, regVars, permVars, pmVars, adapterVars, driverVars,
                   fnVars, chatVars, eventVars>>

\* ======================================================= Specifications

\* the state after the bootstrap has constructed the singletons
\* (EventBus.__init__, Register.__init__, PermSystem.__init__ with no
\* permission file, which registers the two base permissions and the
\* "perms" command)
Init ==
    /\ subscribers = [ty \in {"CommandEvent"} |->
           <<[handler |-> "execute_command", priority |-> 5, stamp |-> 0]>>]
    /\ middlewares = <<>>
    /\ result_queue = <<>>
    /\ total_errors = 0
    /\ total_events_processed = 0
    /\ pub = [t \in AllTasks |-> IdleTask]
    /\ nsub = 0
    /\ raised = 0
    /\ nenq = 0
    /\ running = FALSE
    /\ worker = IdleWorker
    /\ dispatched = <<>>
    /\ commands = [c \in {"perms"} |->
           [handler |-> "perm_command",
            permission |-> PermissionList(<<"permission_system">>)]]
    /\ crash_times = [ty \in {"command", "function", "event"} |->
                         [c \in LedgerNames |-> 0]]
    /\ last = NoCall
    /\ nregs = 0
    /\ reg_log = <<>>
    /\ registered_perms = {"ALL", "permission_system"}
    /\ user_perms = [u \in Users |-> {}]
    /\ group_perms = [g \in Groups |-> {}]
    /\ npermops = 0
    /\ granted = {}
    /\ perm_file = save_permissions([u \in Users |-> {}], [g \in Groups |-> {}])
    /\ declared = [p \in Plugins |-> {}]
    /\ compatibility = [p \in Plugins |-> PLUGINMANAGER_META]
    /\ dirs = [p \in Plugins |-> "enabled"]
    /\ entries = <<>>
    /\ loaded_set = {}
    /\ loaded_modules = {}
    /\ is_loading = FALSE
    /\ la = IdleLoadAll
    /\ lp = [p \in Plugins |-> "idle"]
    /\ nloadall = 0
    /\ nops = 0
    /\ adapters = {}
    /\ am_calls = <<>>
    /\ live = [d \in Drivers |-> {}]
    /\ adapter_bots = [k \in AdapterKeys |-> {}]
    /\ manager_bots = <<>>
    /\ nconn = 0
    /\ functions = {}
    /\ last_fn = NoFunctionCall
    /\ last_chat = NoChat
    /\ codec = NoMessage
    /\ event_handlers = [e \in EventNames |-> {}]

\* no publish is in progress
Quiescent == \A t \in Tasks : pub[t].pc = "idle"

\* the bus used from one task: subscriptions change between publishes
NextBus ==
    \/ \E s \in BusSubscriptions : Quiescent /\ subscribe(s[1], s[2], s[3])
    \/ \E ty \in EventTypes, h \in Handlers : Quiescent /\ unsubscribe(ty, h)
    \/ \E t \in Tasks, ty \in BusPublishTypes : publish_begin(t, ty)
    \/ \E t \in Tasks : publish_enter(t)
    \/ \E t \in Tasks, out \in HandlerOutcomes : publish_return(t, out)
    \/ \E t \in Tasks : publish_end(t)

SpecBus == Init /\ [][NextBus]_vars

\* commands guarded by permissions while the permission store changes;
\* the handlers return
NextPerm ==
    \/ \E p \in {"p.ping"} : register_perm(p)
    \/ \E p \in {"p.ping", "ALL"}, u \in {"42", "-1"}, g \in {"7", "-1"} :
           add_perm(p, u, g)
    \/ \E p \in {"p.ping", "ALL"}, u \in {"42", "-1"}, g \in {"7", "-1"} :
           remove_perm(p, u, g)
    \/ \E p \in {"p.ping", "ALL"}, u \in {"42", "-1"} : grant_global_perm(p, u)
    \/ \E p \in {"p.ping", "ALL"}, u \in {"42", "-1"} : revoke_global_perm(p, u)
    \/ \E u \in {"42"} : clear_user_perms(u)
    \/ \E g \in {"7", "-1", "ALL"} : clear_group_perms(g)
    \/ \E perm \in {NoPermission, OnePermission("p.ping"),
                    PermissionList(<<"permission_system", "p.ping">>)} :
           register_command("ping", "f1", perm)
    \/ \E u \in {"42", "Console"}, g \in {"7", "8", "-1"} :
           execute_command("ping", u, g, "return")

SpecPerm == Init /\ [][NextPerm]_vars

\* the permission store and its file while the process lives: grants and
\* removals, any grant of which may be the last when the process is killed in
\* the middle of its save
NextPermFile ==
    \/ \E p \in {"p.ping"} : perm_file.complete /\ register_perm(p)
    \/ \E p \in {"p.ping", "ALL"}, u \in {"42", "-1"}, g \in {"7", "-1", "ALL"} :
           perm_file.complete /\ add_perm(p, u, g)
    \/ \E p \in {"p.ping", "ALL"}, u \in {"42", "-1"}, g \in {"7", "-1", "ALL"} :
           perm_file.complete /\ remove_perm(p, u, g)
    \/ \E p \in {"p.ping", "ALL"}, u \in {"42", "-1"}, g \in {"7", "-1", "ALL"} :
           perm_file.complete /\ add_perm_killed(p, u, g)

SpecPermFile == Init /\ [][NextPermFile]_vars

\* commands whose handlers may raise, over the initial permission store
NextReg ==
    \/ \E h \in CommandHandlers,
          perm \in {NoPermission, OnePermission("permission_system")} :
           register_command("ping", h, perm)
    \/ \E c \in CommandNames, u \in {"42", "Console"}, g \in {"7", "-1"},
          out \in {"return", "raise"} :
           execute_command(c, u, g, out)

SpecReg == Init /\ [][NextReg]_vars

\* the plugin directory as it may be found on disk: any declared
\* dependencies, at most one plugin directory with the .disabled suffix, and
\* plugin C written for this or for an older plugin manager
InitPM ==
    /\ subscribers = [ty \in {"CommandEvent"} |->
           <<[handler |-> "execute_command", priority |-> 5, stamp |-> 0]>>]
    /\ middlewares = <<>>
    /\ result_queue = <<>>
    /\ total_errors = 0
    /\ total_events_processed = 0
    /\ pub = [t \in AllTasks |-> IdleTask]
    /\ nsub = 0
    /\ raised = 0
    /\ nenq = 0
    /\ running = FALSE
    /\ worker = IdleWorker
    /\ dispatched = <<>>
    /\ commands = [c \in {"perms"} |->
           [handler |-> "perm_command",
            permission |-> PermissionList(<<"permission_system">>)]]
    /\ crash_times = [ty \in {"command", "function", "event"} |->
                         [c \in LedgerNames |-> 0]]
    /\ last = NoCall
    /\ nregs = 0
    /\ reg_log = <<>>
    /\ registered_perms = {"ALL", "permission_system"}
    /\ user_perms = [u \in Users |-> {}]
    /\ group_perms = [g \in Groups |-> {}]
    /\ npermops = 0
    /\ granted = {}
    /\ perm_file = save_permissions([u \in Users |-> {}], [g \in Groups |-> {}])
    /\ declared \in [Plugins -> SUBSET Plugins]
    /\ \E old \in {{}, {"C"}} :
          compatibility = [p \in Plugins |->
              IF p \in old THEN PLUGINMANAGER_META - 1 ELSE PLUGINMANAGER_META]
    /\ \E off \in SUBSET Plugins :
          /\ Cardinality(off) <= 1
          /\ dirs = [p \in Plugins |-> IF p \in off THEN "disabled" ELSE "enabled"]
    /\ entries = <<>>
    /\ loaded_set = {}
    /\ loaded_modules = {}
    /\ is_loading = FALSE
    /\ la = IdleLoadAll
    /\ lp = [p \in Plugins |-> "idle"]
    /\ nloadall = 0
    /\ nops = 0
    /\ adapters = {}
    /\ am_calls = <<>>
    /\ live = [d \in Drivers |-> {}]
    /\ adapter_bots = [k \in AdapterKeys |-> {}]
    /\ manager_bots = <<>>
    /\ nconn = 0
    /\ functions = {}
    /\ last_fn = NoFunctionCall
    /\ last_chat = NoChat
    /\ codec = NoMessage
    /\ event_handlers = [e \in EventNames |-> {}]

\* the plugin manager: one bulk load, with single loads and unloads by
\* command at any of its suspension points
NextPM ==
    \/ load_all_begin
    \/ \E p \in Plugins : load_task_start(p)
    \/ \E p \in Plugins, ok \in BOOLEAN : load_task_finish(p, ok)
    \/ load_layer_end
    \/ \E p \in Plugins : load_plugin_begin(p)
    \/ \E p \in Plugins, ok \in BOOLEAN : load_plugin_finish(p, ok)
    \/ \E p \in Plugins : unload_plugin(p)

SpecPM == InitPM /\ [][NextPM]_vars

\* the plugin manager with plugins whose load hooks may raise
NextHooks ==
    \/ load_all_begin
    \/ \E p \in Plugins : load_task_start(p)
    \/ \E p \in Plugins, ok \in BOOLEAN : load_task_finish(p, ok)
    \/ \E p \in Plugins : load_task_hook_raises(p)
    \/ load_layer_end
    \/ \E p \in Plugins : load_plugin_begin(p)
    \/ \E p \in Plugins, ok \in BOOLEAN : load_plugin_finish(p, ok)
    \/ \E p \in Plugins : unload_plugin(p)

SpecHooks == InitPM /\ [][NextHooks]_vars

\* a bulk load, and plugin B loaded by command at any of its suspension
\* points and afterwards
NextLoadPlugin ==
    \/ load_all_begin
    \/ \E p \in Plugins : load_task_start(p)
    \/ \E p \in Plugins, ok \in BOOLEAN : load_task_finish(p, ok)
    \/ load_layer_end
    \/ load_plugin_begin("B")
    \/ \E ok \in BOOLEAN : load_plugin_finish("B", ok)

SpecLoadPlugin == InitPM /\ [][NextLoadPlugin]_vars

\* the plugin manager with its whole command surface: bulk load, single
\* load, unload, disable and enable, interleaved at the suspension points
NextLifecycle ==
    \/ load_all_begin
    \/ \E p \in Plugins : load_task_start(p)
    \/ \E p \in Plugins, ok \in BOOLEAN : load_task_finish(p, ok)
    \/ load_layer_end
    \/ \E p \in Plugins : load_plugin_begin(p)
    \/ \E p \in Plugins, ok \in BOOLEAN : load_plugin_finish(p, ok)
    \/ \E p \in Plugins : unload_plugin(p)
    \/ \E p \in Plugins : disable_plugin(p)
    \/ \E p \in Plugins : enable_plugin(p)

SpecLifecycle == InitPM /\ [][NextLifecycle]_vars

\* three plugins without dependencies, all enabled and compatible
InitUnload ==
    /\ subscribers = [ty \in {"CommandEvent"} |->
           <<[handler |-> "execute_command", priority |-> 5, stamp |-> 0]>>]
    /\ middlewares = <<>>
    /\ result_queue = <<>>
    /\ total_errors = 0
    /\ total_events_processed = 0
    /\ pub = [t \in AllTasks |-> IdleTask]
    /\ nsub = 0
    /\ raised = 0
    /\ nenq = 0
    /\ running = FALSE
    /\ worker = IdleWorker
    /\ dispatched = <<>>
    /\ commands = [c \in {"perms"} |->
           [handler |-> "perm_command",
            permission |-> PermissionList(<<"permission_system">>)]]
    /\ crash_times = [ty \in {"command", "function", "event"} |->
                         [c \in LedgerNames |-> 0]]
    /\ last = NoCall
    /\ nregs = 0
    /\ reg_log = <<>>
    /\ registered_perms = {"ALL", "permission_system"}
    /\ user_perms = [u \in Users |-> {}]
    /\ group_perms = [g \in Groups |-> {}]
    /\ npermops = 0
    /\ granted = {}
    /\ perm_file = save_permissions([u \in Users |-> {}], [g \in Groups |-> {}])
    /\ declared = [p \in Plugins |-> {}]
    /\ compatibility = [p \in Plugins |-> PLUGINMANAGER_META]
    /\ dirs = [p \in Plugins |-> "enabled"]
    /\ entries = <<>>
    /\ loaded_set = {}
    /\ loaded_modules = {}
    /\ is_loading = FALSE
    /\ la = IdleLoadAll
    /\ lp = [p \in Plugins |-> "idle"]
    /\ nloadall = 0
    /\ nops = 0
    /\ adapters = {}
    /\ am_calls = <<>>
    /\ live = [d \in Drivers |-> {}]
    /\ adapter_bots = [k \in AdapterKeys |-> {}]
    /\ manager_bots = <<>>
    /\ nconn = 0
    /\ functions = {}
    /\ last_fn = NoFunctionCall
    /\ last_chat = NoChat
    /\ codec = NoMessage
    /\ event_handlers = [e \in EventNames |-> {}]

\* MaxLayer plugins without dependencies, all enabled and compatible: the
\* dependency graph has one layer, wider than the loader's semaphore
InitLoader ==
    /\ subscribers = [ty \in {"CommandEvent"} |->
           <<[handler |-> "execute_command", priority |-> 5, stamp |-> 0]>>]
    /\ middlewares = <<>>
    /\ result_queue = <<>>
    /\ total_errors = 0
    /\ total_events_processed = 0
    /\ pub = [t \in AllTasks |-> IdleTask]
    /\ nsub = 0
    /\ raised = 0
    /\ nenq = 0
    /\ running = FALSE
    /\ worker = IdleWorker
    /\ dispatched = <<>>
    /\ commands = [c \in {"perms"} |->
           [handler |-> "perm_command",
            permission |-> PermissionList(<<"permission_system">>)]]
    /\ crash_times = [ty \in {"command", "function", "event"} |->
                         [c \in LedgerNames |-> 0]]
    /\ last = NoCall
    /\ nregs = 0
    /\ reg_log = <<>>
    /\ registered_perms = {"ALL", "permission_system"}
    /\ user_perms = [u \in Users |-> {}]
    /\ group_perms = [g \in Groups |-> {}]
    /\ npermops = 0
    /\ granted = {}
    /\ perm_file = save_permissions([u \in Users |-> {}], [g \in Groups |-> {}])
    /\ declared = [p \in LayerPlugins |-> {}]
    /\ compatibility = [p \in LayerPlugins |-> PLUGINMANAGER_META]
    /\ dirs = [p \in LayerPlugins |-> "enabled"]
    /\ entries = <<>>
    /\ loaded_set = {}
    /\ loaded_modules = {}
    /\ is_loading = FALSE
    /\ la = IdleLoadAll
    /\ lp = [p \in LayerPlugins |-> "idle"]
    /\ nloadall = 0
    /\ nops = 0
    /\ adapters = {}
    /\ am_calls = <<>>
    /\ live = [d \in Drivers |-> {}]
    /\ adapter_bots = [k \in AdapterKeys |-> {}]
    /\ manager_bots = <<>>
    /\ nconn = 0
    /\ functions = {}
    /\ last_fn = NoFunctionCall
    /\ last_chat = NoChat
    /\ codec = NoMessage
    /\ event_handlers = [e \in EventNames |-> {}]

\* bulk loads of the wide layer: load_plugins_concurrently with its tasks;
\* every module can be executed, and the module of the first plugin may
\* also raise on import
NextLoader ==
    \/ load_all_begin
    \/ \E p \in LayerPlugins : load_task_start(p)
    \/ \E p \in LayerPlugins : load_task_finish(p, TRUE)
    \/ load_task_finish(LayerNames[1], FALSE)
    \/ load_layer_end

SpecLoader == InitLoader /\ [][NextLoader]_vars

\* the event loop resumes a task that waits for a free semaphore, and every
\* module execution handed to the executor ends
LoaderFairness ==
    /\ \A p \in LayerPlugins : WF_vars(load_task_start(p))
    /\ \A p \in LayerPlugins : WF_vars(load_task_finish(p, TRUE))

SpecLoaderLive == InitLoader /\ [][NextLoader]_vars /\ LoaderFairness

\* three enabled and compatible plugins: A without dependencies, B and C
\* each declaring A
InitRegistry ==
    /\ subscribers = [ty \in {"CommandEvent"} |->
           <<[handler |-> "execute_command", priority |-> 5, stamp |-> 0]>>]
    /\ middlewares = <<>>
    /\ result_queue = <<>>
    /\ total_errors = 0
    /\ total_events_processed = 0
    /\ pub = [t \in AllTasks |-> IdleTask]
    /\ nsub = 0
    /\ raised = 0
    /\ nenq = 0
    /\ running = FALSE
    /\ worker = IdleWorker
    /\ dispatched = <<>>
    /\ commands = [c \in {"perms"} |->
           [handler |-> "perm_command",
            permission |-> PermissionList(<<"permission_system">>)]]
    /\ crash_times = [ty \in {"command", "function", "event"} |->
                         [c \in LedgerNames |-> 0]]
    /\ last = NoCall
    /\ nregs = 0
    /\ reg_log = <<>>
    /\ registered_perms = {"ALL", "permission_system"}
    /\ user_perms = [u \in Users |-> {}]
    /\ group_perms = [g \in Groups |-> {}]
    /\ npermops = 0
    /\ granted = {}
    /\ perm_file = save_permissions([u \in Users |-> {}], [g \in Groups |-> {}])
    /\ declared = [p \in Plugins |-> IF p = "A" THEN {} ELSE {"A"}]
    /\ compatibility = [p \in Plugins |-> PLUGINMANAGER_META]
    /\ dirs = [p \in Plugins |-> "enabled"]
    /\ entries = <<>>
    /\ loaded_set = {}
    /\ loaded_modules = {}
    /\ is_loading = FALSE
    /\ la = IdleLoadAll
    /\ lp = [p \in Plugins |-> "idle"]
    /\ nloadall = 0
    /\ nops = 0
    /\ adapters = {}
    /\ am_calls = <<>>
    /\ live = [d \in Drivers |-> {}]
    /\ adapter_bots = [k \in AdapterKeys |-> {}]
    /\ manager_bots = <<>>
    /\ nconn = 0
    /\ functions = {}
    /\ last_fn = NoFunctionCall
    /\ last_chat = NoChat
    /\ codec = NoMessage
    /\ event_handlers = [e \in EventNames |-> {}]

\* the registry driven through its own operations, and a shutdown
NextRegistry ==
    \/ \E p \in Plugins : registry_register_plugin(p)
    \/ \E p \in Plugins : registry_mark_as_loaded(p)
    \/ \E p \in Plugins : registry_mark_as_unloaded(p)
    \/ \E p \in Plugins : registry_mark_as_error(p)
    \/ \E p \in Plugins : registry_mark_as_disabled(p)
    \/ \E p \in Plugins : registry_mark_as_enabled(p)
    \/ unload_all_plugins

SpecRegistry == InitRegistry /\ [][NextRegistry]_vars

\* the plugin manager together with its clients: commands executed and
\* message events published while plugins are loaded and unloaded
NextUnload ==
    \/ load_all_begin
    \/ \E p \in Plugins : load_task_start(p)
    \/ \E p \in Plugins, ok \in BOOLEAN : load_task_finish(p, ok)
    \/ load_layer_end
    \/ \E p \in Plugins : load_plugin_begin(p)
    \/ \E p \in Plugins, ok \in BOOLEAN : load_plugin_finish(p, ok)
    \/ \E p \in Plugins : unload_plugin(p)
    \/ execute_command("ping", "42", "7", "return")
    \/ publish_begin("t1", "MessageEvent")
    \/ publish_enter("t1")
    \/ publish_return("t1", "None")
    \/ publish_end("t1")

SpecUnload == InitUnload /\ [][NextUnload]_vars

\* the state after the bootstrap has also constructed the AdapterManager,
\* which subscribes handle_message and handle_action
InitAdapter ==
    /\ subscribers = [ty \in {"CommandEvent", "MessageRequest", "ActionRequest"} |->
           IF ty = "CommandEvent"
           THEN <<[handler |-> "execute_command", priority |-> 5, stamp |-> 0]>>
           ELSE IF ty = "MessageRequest"
           THEN <<[handler |-> "handle_message", priority |-> 5, stamp |-> 1]>>
           ELSE <<[handler |-> "handle_action", priority |-> 5, stamp |-> 2]>>]
    /\ middlewares = <<>>
    /\ result_queue = <<>>
    /\ total_errors = 0
    /\ total_events_processed = 0
    /\ pub = [t \in AllTasks |-> IdleTask]
    /\ nsub = 2
    /\ raised = 0
    /\ nenq = 0
    /\ running = FALSE
    /\ worker = IdleWorker
    /\ dispatched = <<>>
    /\ commands = [c \in {"perms"} |->
           [handler |-> "perm_command",
            permission |-> PermissionList(<<"permission_system">>)]]
    /\ crash_times = [ty \in {"command", "function", "event"} |->
                         [c \in LedgerNames |-> 0]]
    /\ last = NoCall
    /\ nregs = 0
    /\ reg_log = <<>>
    /\ registered_perms = {"ALL", "permission_system"}
    /\ user_perms = [u \in Users |-> {}]
    /\ group_perms = [g \in Groups |-> {}]
    /\ npermops = 0
    /\ granted = {}
    /\ perm_file = save_permissions([u \in Users |-> {}], [g \in Groups |-> {}])
    /\ declared = [p \in Plugins |-> {}]
    /\ compatibility = [p \in Plugins |-> PLUGINMANAGER_META]
    /\ dirs = [p \in Plugins |-> "enabled"]
    /\ entries = <<>>
    /\ loaded_set = {}
    /\ loaded_modules = {}
    /\ is_loading = FALSE
    /\ la = IdleLoadAll
    /\ lp = [p \in Plugins |-> "idle"]
    /\ nloadall = 0
    /\ nops = 0
    /\ adapters = {}
    /\ am_calls = <<>>
    /\ live = [d \in Drivers |-> {}]
    /\ adapter_bots = [k \in AdapterKeys |-> {}]
    /\ manager_bots = <<>>
    /\ nconn = 0
    /\ functions = {}
    /\ last_fn = NoFunctionCall
    /\ last_chat = NoChat
    /\ codec = NoMessage
    /\ event_handlers = [e \in EventNames |-> {}]

\* requests published on the bus while adapters are registered
NextAdapter ==
    \/ \E k \in AdapterKeys : register_adapter(k)
    \/ \E ty \in {"MessageRequest", "ActionRequest"} : publish_begin("t1", ty)
    \/ publish_enter("t1")
    \/ \E platform \in Platforms, out \in AdapterOutcomes :
           handle_message("t1", platform, out)
    \/ \E platform \in Platforms : handle_action("t1", platform)
    \/ publish_end("t1")

SpecAdapter == InitAdapter /\ [][NextAdapter]_vars

\* the state after the bootstrap has loaded the adapters and the drivers: both
\* adapters registered, no connection yet
InitDriver ==
    /\ subscribers = [ty \in {"CommandEvent", "MessageRequest", "ActionRequest"} |->
           IF ty = "CommandEvent"
           THEN <<[handler |-> "execute_command", priority |-> 5, stamp |-> 0]>>
           ELSE IF ty = "MessageRequest"
           THEN <<[handler |-> "handle_message", priority |-> 5, stamp |-> 1]>>
           ELSE <<[handler |-> "handle_action", priority |-> 5, stamp |-> 2]>>]
    /\ middlewares = <<>>
    /\ result_queue = <<>>
    /\ total_errors = 0
    /\ total_events_processed = 0
    /\ pub = [t \in AllTasks |-> IdleTask]
    /\ nsub = 2
    /\ raised = 0
    /\ nenq = 0
    /\ running = FALSE
    /\ worker = IdleWorker
    /\ dispatched = <<>>
    /\ commands = [c \in {"perms"} |->
           [handler |-> "perm_command",
            permission |-> PermissionList(<<"permission_system">>)]]
    /\ crash_times = [ty \in {"command", "function", "event"} |->
                         [c \in LedgerNames |-> 0]]
    /\ last = NoCall
    /\ nregs = 0
    /\ reg_log = <<>>
    /\ registered_perms = {"ALL", "permission_system"}
    /\ user_perms = [u \in Users |-> {}]
    /\ group_perms = [g \in Groups |-> {}]
    /\ npermops = 0
    /\ granted = {}
    /\ perm_file = save_permissions([u \in Users |-> {}], [g \in Groups |-> {}])
    /\ declared = [p \in Plugins |-> {}]
    /\ compatibility = [p \in Plugins |-> PLUGINMANAGER_META]
    /\ dirs = [p \in Plugins |-> "enabled"]
    /\ entries = <<>>
    /\ loaded_set = {}
    /\ loaded_modules = {}
    /\ is_loading = FALSE
    /\ la = IdleLoadAll
    /\ lp = [p \in Plugins |-> "idle"]
    /\ nloadall = 0
    /\ nops = 0
    /\ adapters = AdapterKeys
    /\ am_calls = <<>>
    /\ live = [d \in Drivers |-> {}]
    /\ adapter_bots = [k \in AdapterKeys |-> {}]
    /\ manager_bots = <<>>
    /\ nconn = 0
    /\ functions = {}
    /\ last_fn = NoFunctionCall
    /\ last_chat = NoChat
    /\ codec = NoMessage
    /\ event_handlers = [e \in EventNames |-> {}]

\* connections of the drivers open and close
NextDriver ==
    \/ \E d \in Drivers, c \in Connections : driver_connect(d, c)
    \/ \E d \in Drivers, c \in Connections : driver_disconnect(d, c)

SpecDriver == InitDriver /\ [][NextDriver]_vars

\* named functions registered and called, the functions returning or raising
NextFn ==
    \/ \E n \in FunctionNames : register_function(n)
    \/ \E n \in FunctionNames, out \in {"return", "raise"} : execute_function(n, out)

SpecFn == Init /\ [][NextFn]_vars

\* the state after the bootstrap and register_plugin of the chat-command
\* bridge: its handler subscribed to MessageEvent with priority 1 and its two
\* permissions registered
InitChat ==
    /\ subscribers = [ty \in {"CommandEvent", "MessageEvent"} |->
           IF ty = "CommandEvent"
           THEN <<[handler |-> "execute_command", priority |-> 5, stamp |-> 0]>>
           ELSE <<[handler |-> "chat_command", priority |-> 1, stamp |-> 1]>>]
    /\ middlewares = <<>>
    /\ result_queue = <<>>
    /\ total_errors = 0
    /\ total_events_processed = 0
    /\ pub = [t \in AllTasks |-> IdleTask]
    /\ nsub = 1
    /\ raised = 0
    /\ nenq = 0
    /\ running = FALSE
    /\ worker = IdleWorker
    /\ dispatched = <<>>
    /\ commands = [c \in {"perms"} |->
           [handler |-> "perm_command",
            permission |-> PermissionList(<<"permission_system">>)]]
    /\ crash_times = [ty \in {"command", "function", "event"} |->
                         [c \in LedgerNames |-> 0]]
    /\ last = NoCall
    /\ nregs = 0
    /\ reg_log = <<>>
    /\ registered_perms = {"ALL", "permission_system", "chat_command",
                           "chat_command.execute"}
    /\ user_perms = [u \in Users |-> {}]
    /\ group_perms = [g \in Groups |-> {}]
    /\ npermops = 0
    /\ granted = {}
    /\ perm_file = save_permissions([u \in Users |-> {}], [g \in Groups |-> {}])
    /\ declared = [p \in Plugins |-> {}]
    /\ compatibility = [p \in Plugins |-> PLUGINMANAGER_META]
    /\ dirs = [p \in Plugins |-> "enabled"]
    /\ entries = <<>>
    /\ loaded_set = {}
    /\ loaded_modules = {}
    /\ is_loading = FALSE
    /\ la = IdleLoadAll
    /\ lp = [p \in Plugins |-> "idle"]
    /\ nloadall = 0
    /\ nops = 0
    /\ adapters = {}
    /\ am_calls = <<>>
    /\ live = [d \in Drivers |-> {}]
    /\ adapter_bots = [k \in AdapterKeys |-> {}]
    /\ manager_bots = <<>>
    /\ nconn = 0
    /\ functions = {}
    /\ last_fn = NoFunctionCall
    /\ last_chat = NoChat
    /\ codec = NoMessage
    /\ event_handlers = [e \in EventNames |-> {}]

\* chat messages handled by the bridge while permissions are granted and
\* commands registered
NextChat ==
    \/ \E p \in {"chat_command", "chat_command.execute"}, g \in {"7", "ALL"} :
           add_perm(p, "42", g)
    \/ \E perm \in {NoPermission, OnePermission("permission_system")} :
           register_command("ping", "f1", perm)
    \/ \E u \in {"42", "Console"}, g \in {"7", "8"}, text \in Texts,
          out \in {"return", "raise"} :
           chat_command(u, g, text, out)

SpecChat == InitChat /\ [][NextChat]_vars

\* an inbound message decoded and sent back out
NextCodec ==
    \/ \E msg \in InboundMessages : handle_message_event(msg)
    \/ handle_outgoing_message

SpecCodec == Init /\ [][NextCodec]_vars

\* every publish coroutine is at a point where other code can run: not
\* started, or suspended inside a handler it awaits
Suspended == \A t \in Tasks : pub[t].pc \in {"idle", "in_handler"}

\* the bus used from several tasks: subscribe and unsubscribe are called by
\* another task or by a handler while a publish is suspended inside a handler
NextBusConcurrent ==
    \/ \E s \in BusSubscriptions : Suspended /\ subscribe(s[1], s[2], s[3])
    \/ \E ty \in EventTypes, h \in Handlers : Suspended /\ unsubscribe(ty, h)
    \/ \E t \in Tasks, ty \in BusPublishTypes : publish_begin(t, ty)
    \/ \E t \in Tasks : publish_enter(t)
    \/ \E t \in Tasks, out \in HandlerOutcomes : publish_return(t, out)
    \/ \E t \in Tasks : publish_end(t)

SpecBusConcurrent == Init /\ [][NextBusConcurrent]_vars

\* event listeners on the bus: handlers are registered and unregistered
\* between and during publishes of the GenericEvent named PublishedName
NextEvents ==
    \/ \E e \in EventNames, fn \in EventFunctions : Suspended /\ register_event(e, fn)
    \/ \E e \in EventNames : Suspended /\ unregister_event(e)
    \/ \E t \in Tasks : publish_begin(t, "GenericEvent")
    \/ \E t \in Tasks : publish_enter(t)
    \/ \E t \in Tasks, raises \in BOOLEAN : wrapper_return(t, raises)
    \/ \E t \in Tasks : publish_end(t)

SpecEvents == Init /\ [][NextEvents]_vars

\* the bus with middlewares: one subscribed handler, middlewares added at any
\* time, also while a publish is in its chain
NextMw ==
    \/ \E m \in Middlewares : add_middleware(m)
    \/ Quiescent /\ nsub = 0 /\ subscribe("MessageEvent", "h1", 10)
    \/ \E t \in Tasks : publish_begin(t, "MessageEvent")
    \/ \E t \in Tasks, out \in MiddlewareOutcomes : publish_middleware(t, out)
    \/ \E t \in Tasks : publish_enter(t)
    \/ \E t \in Tasks, out \in HandlerOutcomes : publish_return(t, out)
    \/ \E t \in Tasks : publish_end(t)

SpecMw == Init /\ [][NextMw]_vars

\* the subscribe calls made, in this order, before the bus is started
WorkerSubscriptions ==
    <<<<"MessageEvent", "h1", 10>>, <<"GenericEvent", "h3", 10>>,
      <<"MessageRequest", "h2", 5>>>>

\* the non-null results handlers have returned so far
Produced == nenq + Len(pub["t1"].results) + Len(pub["worker"].results)

\* the bus with its result worker: subscriptions are set up, initialize()
\* starts the worker, callers publish and the worker re-publishes results
NextWorker ==
    \/ \E k \in 1..Len(WorkerSubscriptions) :
           /\ nsub = k - 1
           /\ ~running
           /\ subscribe(WorkerSubscriptions[k][1], WorkerSubscriptions[k][2],
                        WorkerSubscriptions[k][3])
    \/ initialize
    \/ shutdown
    \/ \E t \in Tasks, ty \in BusPublishTypes : running /\ publish_begin(t, ty)
    \/ \E t \in AllTasks : publish_enter(t)
    \/ \E t \in AllTasks, out \in HandlerOutcomes :
           /\ out \in {"str", "MessageRequest"} => Produced < MaxResults
           /\ publish_return(t, out)
    \/ \E t \in AllTasks : publish_end(t)
    \/ worker_get
    \/ worker_timeout
    \/ worker_dispatch
    \/ worker_resume

SpecWorker == Init /\ [][NextWorker]_vars

\* the worker, and the handlers of the publishes it awaits, keep running
WorkerFairness ==
    /\ WF_vars(worker_get)
    /\ WF_vars(worker_timeout)
    /\ WF_vars(worker_dispatch)
    /\ WF_vars(worker_resume)
    /\ WF_vars(publish_enter("worker"))
    /\ WF_vars(publish_return("worker", "None"))
    /\ WF_vars(publish_end("worker"))

SpecWorkerLive == Init /\ [][NextWorker]_vars /\ WorkerFairness

\* ------------------------------------------------------------ bus claims

\* entry a of a publish log comes before entry b in the bus order
Before(a, b) ==
    \/ a.priority > b.priority
    \/ a.priority = b.priority /\ a.stamp < b.stamp

C2_DispatchSafety ==
    /\ total_errors = raised
    /\ \A t \in Tasks :
        /\ pub[t].outcome # "raised"
        /\ Exhausted(t) => Len(pub[t].entered) = Len(IterList(t))

C2_Witness ==
    \E t \in Tasks :
        /\ Exhausted(t)
        /\ pub[t].nraised = 1
        /\ Len(pub[t].entered) = 3
        /\ pub[t].entered[2].handler = "h2"
        /\ total_errors = 1

\* ----------------------------------------- permission and registry claims

\* the permission arguments the claims quantify over: registered and
\* unregistered names, and lists of them
PermArgs ==
    {OnePermission(p) : p \in PermNames \cup {"p.other"}}
        \cup {PermissionList(<<"permission_system", "p.ping">>),
              PermissionList(<<"p.ping", "p.other">>)}

\* C3: check_perm for user "Console" is true for every permission argument
\* and group over every permission store, and an execute_command by Console
\* for a registered command reaches the handler
C3_ConsoleOverride ==
    /\ \A perm \in PermArgs, g \in Groups : check_perm(perm, "Console", g)
    /\ (last.user = "Console" /\ last.result # "No command found")
           => last.handler # "none"

C3_Witness ==
    /\ last.user = "Console"
    /\ last.handler = "f1"
    /\ "ping" \in DOMAIN commands
    /\ commands["ping"].permission = OnePermission("p.ping")
    /\ "p.ping" \in registered_perms
    /\ ~check_perm(OnePermission("p.ping"), "42", last.group)

PingScenario ==
    /\ "p.ping" \in registered_perms
    /\ user_perms["42"] = {[perm |-> "p.ping", group |-> "7"]}
    /\ \A g \in Groups : group_perms[g] = {}
    /\ "ping" \in DOMAIN commands
    /\ commands["ping"].permission = OnePermission("p.ping")

\* C5: an execute_command call invokes the handler of a command that has a
\* permission only if check_perm passes for the event's user and group, and
\* answers "Permission denied" otherwise; in the example user 42 reaches the
\* handler of ping from group 7 and is denied from group 8
C5_PermissionGate ==
    [][last' # last =>
        /\ (last'.command \in DOMAIN commands
               /\ Truthy(commands[last'.command].permission)) =>
              IF check_perm(commands[last'.command].permission, last'.user, last'.group)
              THEN last'.handler = commands[last'.command].handler
              ELSE last'.handler = "none" /\ last'.result = "Permission denied"
        /\ (PingScenario /\ last'.command = "ping" /\ last'.user = "42") =>
              /\ last'.group = "7" => last'.handler # "none"
              /\ last'.group = "8" =>
                    last'.handler = "none" /\ last'.result = "Permission denied"
    ]_vars

C5_Witness ==
    /\ PingScenario
    /\ last = [command |-> "ping", user |-> "42", group |-> "8",
               result |-> "Permission denied", handler |-> "none"]

\* C6: counting the raising calls per command name, a command is
\* unregistered by execute_command only in a raising call that brings its
\* counter to three or more, the call that brings the counter to three
\* unregisters it, and a call for a name that is not registered answers
\* "No command found" without invoking a handler
C6_AutoDisable ==
    [][\A c \in CommandNames :
        /\ (c \in DOMAIN commands /\ c \notin DOMAIN commands') =>
              /\ crash_times'["command"][c] >= 3
              /\ crash_times'["command"][c] = crash_times["command"][c] + 1
              /\ last'.command = c
              /\ last'.result = "Error executing command"
        /\ (crash_times["command"][c] = 2 /\ crash_times'["command"][c] = 3) =>
              c \notin DOMAIN commands'
        /\ (last' # last /\ last'.command = c /\ c \notin DOMAIN commands) =>
              last'.result = "No command found" /\ last'.handler = "none"
    ]_vars

C6_Witness ==
    /\ nregs = 1
    /\ crash_times["command"]["ping"] = 3
    /\ "ping" \notin DOMAIN commands
    /\ last = [command |-> "ping", user |-> "42", group |-> "7",
               result |-> "No command found", handler |-> "none"]

\* ------------------------------------------------------------------ C7
\* C7: a plugin B that declares a dependency A becomes Loaded, through
\* load_all_plugins or load_plugin, only in a step in which every declared
\* dependency of B is already Loaded; otherwise B is not Loaded.
C7_DependencyOrder ==
    [][\A b \in Plugins :
          (is_loaded(b)' /\ ~is_loaded(b)) => \A a \in declared[b] : is_loaded(a)]_vars

\* load_all_plugins has run to its end with B declaring A: A is Loaded and B
\* was skipped
C7_Witness ==
    /\ la.ret = "loaded"
    /\ "A" \in declared["B"]
    /\ is_loaded("A")
    /\ "B" \in DOMAIN entries
    /\ entries["B"].state = "error"

\* ------------------------------------------------------------------ C8
\* the plugins reachable from S along declared dependencies
RECURSIVE DeclaredClosure(_)
DeclaredClosure(S) ==
    LET T == S \cup UNION {declared[q] : q \in S}
    IN IF T = S THEN S ELSE DeclaredClosure(T)

OnDeclaredCycle(p) == p \in DeclaredClosure(declared[p])

\* C8: a plugin on a cycle of the declared dependency graph (a plugin that
\* depends on itself included) is never Loaded.
C8_CycleNeverLoaded ==
    \A p \in Plugins : OnDeclaredCycle(p) => ~is_loaded(p)

\* load_all_plugins has refused a directory in which A and B depend on each
\* other, and both are registered and not loaded
C8_Witness ==
    /\ la.ret = "cycle"
    /\ "B" \in declared["A"]
    /\ "A" \in declared["B"]
    /\ {"A", "B"} \subseteq DOMAIN entries
    /\ entries["A"].state = "unloaded"
    /\ entries["B"].state = "unloaded"

\* ------------------------------------------------------------------ C9
\* A without dependencies, B and C each depending on A, all enabled
StarGraph ==
    /\ declared = [p \in Plugins |-> IF p = "A" THEN {} ELSE {"A"}]
    /\ \A p \in Plugins : dirs[p] = "enabled"

\* C9: topological_sort places every plugin in a strictly later layer than
\* each of its dependencies; for A without dependencies and B, C each
\* depending on A, the layers are [{A}, {B, C}], and when no module fails to
\* execute load_all_plugins ends with all three Loaded.
C9_LayeredLoad ==
    /\ la.pc = "gather" =>
           \A i, j \in 1..Len(la.layers) :
              \A p \in la.layers[i] :
                 \A d \in la.layers[j] \cap declared[p] : j < i
    /\ StarGraph =>
           /\ la.pc = "gather" => la.layers = <<{"A"}, {"B", "C"}>>
           /\ (la.ret = "loaded" /\ la.exec_failed = {})
                  => \A p \in Plugins : is_loaded(p)

\* ------------------------------------------------------------------ C10
\* C10: when load_all_plugins records the failure of a plugin A, A is put in
\* state Error, and every registered plugin that declares A as a dependency
\* is not Loaded and has dependencies_met false, then and when the run ends.
C10_FailurePropagation ==
    [][\A a \in Plugins :
          (a \in la'.failed /\ (a \notin la.failed \/ la'.ret = "loaded")) =>
             /\ a \notin la.failed => entries'[a].state = "error"
             /\ \A b \in DOMAIN entries' :
                   a \in declared[b] =>
                      /\ entries'[b].state # "loaded"
                      /\ ~entries'[b].dependencies_met]_vars

\* load_all_plugins has run to its end, the module of A failed to execute,
\* and B declares A: both are in state Error and B's dependencies are not met
C10_Witness ==
    /\ la.ret = "loaded"
    /\ "A" \in la.exec_failed
    /\ "A" \in declared["B"]
    /\ {"A", "B"} \subseteq DOMAIN entries
    /\ entries["A"].state = "error"
    /\ entries["B"].state = "error"
    /\ ~entries["B"].dependencies_met

\* ------------------------------------------------------------------ C11
\* the most recent register_command call for command c
LastRegistration(c) ==
    LET is == {i \in 1..Len(reg_log) : reg_log[i].command = c}
    IN reg_log[CHOOSE i \in is : \A j \in is : j <= i]

\* C11: an execute_command for a name that register_command was called for
\* applies the permission of the most recent registration, and the handler
\* it invokes is the handler of the most recent registration.
C11_LastRegistrationWins ==
    [][(last' # last /\ \E i \in 1..Len(reg_log) : reg_log[i].command = last'.command) =>
          LET r == LastRegistration(last'.command)
              denied == Truthy(r.permission)
                           /\ ~check_perm(r.permission, last'.user, last'.group)
          IN /\ last'.handler \in {"none", r.handler}
             /\ last'.result = "Permission denied" => denied
             /\ last'.handler = r.handler => ~denied
             /\ last'.result = "No command found" =>
                   AutoDisable(crash_times["command"][last'.command])]_vars

\* ping was registered with f1 and then with f2, and the last execute_command
\* of ping ran f2
C11_Witness ==
    /\ Len(reg_log) = 2
    /\ reg_log[1].command = "ping" /\ reg_log[1].handler = "f1"
    /\ reg_log[2].command = "ping" /\ reg_log[2].handler = "f2"
    /\ last.command = "ping"
    /\ last.handler = "f2"
    /\ last.result = "handler result"

\* ------------------------------------------------------------------ C12
\* the reference resolution of one permission name
ReferenceSingle(p, u, g) ==
    \/ p \notin registered_perms
    \/ \E e \in user_perms[u] : e.perm = "ALL"
    \/ [perm |-> p, group |-> "ALL"] \in user_perms[u]
    \/ [perm |-> p, group |-> g] \in user_perms[u]
    \/ p \in group_perms[g]
    \/ p \in group_perms["-1"]

\* the reference resolution of a permission argument: a list succeeds iff
\* one of its elements does
ReferenceResolution(perm, u, g) ==
    IF perm.kind = "list"
    THEN \E p \in {perm.names[i] : i \in 1..Len(perm.names)} : ReferenceSingle(p, u, g)
    ELSE ReferenceSingle(perm.names[1], u, g)

\* C12: for every user other than Console, every group and every permission
\* argument, check_perm equals the reference resolution over the store.
C12_Resolution ==
    \A perm \in PermArgs \cup {PermissionList(<<>>)}, u \in Users \ {"Console"}, g \in Groups :
        check_perm(perm, u, g) <=> ReferenceResolution(perm, u, g)

\* p.ping is registered and held by no user but by the global group "-1":
\* user 42 passes in group 8, and fails for the list of a permission nobody
\* holds
C12_Witness ==
    /\ "p.ping" \in registered_perms
    /\ \A u \in Users : user_perms[u] = {}
    /\ group_perms["-1"] = {"p.ping"}
    /\ group_perms["8"] = {}
    /\ check_perm(OnePermission("p.ping"), "42", "8")
    /\ ~check_perm(PermissionList(<<"permission_system">>), "42", "8")

\* ------------------------------------------------------------------ C13
\* a publish coroutine returns from its handler loop in this step
PublishEnds(t) == pub[t].pc = "handlers" /\ pub'[t].outcome = "returned"

\* the results of publish t that _enqueue_result keeps: every object, and a
\* string when the event is a message, notice or command event
Kept(t) ==
    {i \in 1..Len(pub[t].results) :
        \/ pub[t].results[i] # "str"
        \/ pub[t].type \in {"MessageEvent", "NoticeEvent", "CommandEvent"}}

IsQueued(n) == \E i \in 1..Len(result_queue) : result_queue[i].seq = n
IsDispatched(n) == \E i \in 1..Len(dispatched) : dispatched[i].seq = n

\* C13 as stated: every non-null handler result of a publish is put on the
\* result queue, and every item the worker takes is published again.
C13_Original ==
    [][/\ \A t \in AllTasks :
             PublishEnds(t) =>
                Len(result_queue') = Len(result_queue) + Len(pub[t].results)
       /\ \A i \in 1..Len(dispatched') : dispatched'[i].how = "published"]_vars

\* C13, amended: a publish puts on the queue every non-null result except a
\* string returned for an event that is not a message, notice or command
\* event; the worker publishes an item when its type has a subscriber list
\* and drops it otherwise; and while the bus is running every queued item is
\* eventually dispatched in one of these two ways.
C13_ResultsDispatched ==
    /\ [][\A t \in AllTasks :
             PublishEnds(t) =>
                Len(result_queue') = Len(result_queue) + Cardinality(Kept(t))]_vars
    /\ [][\A i \in 1..Len(dispatched') :
             i > Len(dispatched) =>
                (dispatched'[i].how = "published"
                    <=> dispatched'[i].type \in DOMAIN subscribers)]_vars
    /\ \A n \in 1..(MaxResults + 1) :
          IsQueued(n) ~> (IsDispatched(n) \/ ~running)

\* while the bus runs, the first queued result has been taken by the worker
\* and published again, and a handler subscribed to its type is running
C13_Witness ==
    /\ running
    /\ Len(dispatched) = 1
    /\ dispatched[1].seq = 1
    /\ dispatched[1].how = "published"
    /\ pub["worker"].pc = "in_handler"
    /\ pub["worker"].type = "MessageRequest"

\* ------------------------------------------------------------------ C14
\* C14: the worker dispatches results in the order they were put on the
\* queue, within a batch and from one batch to the next.
C14_DispatchOrder ==
    \A i, j \in 1..Len(dispatched) :
        i < j => dispatched[i].seq < dispatched[j].seq

\* three results dispatched in queue order, the first two in one batch and
\* the third in a later batch
C14_Witness ==
    /\ Len(dispatched) = 3
    /\ dispatched[1].seq = 1 /\ dispatched[2].seq = 2 /\ dispatched[3].seq = 3
    /\ dispatched[1].batch = dispatched[2].batch
    /\ dispatched[2].batch < dispatched[3].batch

\* ------------------------------------------------------------------ C15
\* C15: subscribing a handler again to an event type leaves one subscription:
\* no subscriber list holds a handler twice, and no publish enters a handler
\* twice.
C15_SubscribeIdempotent ==
    /\ \A ty \in DOMAIN subscribers :
          \A i, j \in 1..Len(subscribers[ty]) :
             i # j => subscribers[ty][i].handler # subscribers[ty][j].handler
    /\ \A t \in Tasks :
          ~pub[t].mutated =>
             \A i, j \in 1..Len(pub[t].entered) :
                i # j => pub[t].entered[i].handler # pub[t].entered[j].handler

\* ------------------------------------------------------------------ C16
\* the names of the middlewares publish t has called, in call order
CalledNames(task) == [i \in 1..Len(task.mws) |-> task.mws[i].name]

\* C16: a publish calls the middlewares in registration order and enters the
\* handler loop only after every registered middleware has returned the
\* event; when a middleware returns null or raises, the publish ends without
\* entering a handler and without putting anything on the result queue, and
\* total_errors grows by one exactly when the middleware raised.
C16_MiddlewareChain ==
    [][\A t \in Tasks :
          /\ CalledNames(pub'[t]) = SubSeq(middlewares', 1, Len(pub'[t].mws))
          /\ pub'[t].pc = "mw" => pub'[t].entered = <<>>
          /\ (pub[t].pc \in {"idle", "mw"} /\ pub'[t].pc = "handlers") =>
                /\ Len(pub'[t].mws) = Len(middlewares)
                /\ \A i \in 1..Len(pub'[t].mws) : pub'[t].mws[i].out = "pass"
          /\ (pub[t].pc = "mw" /\ pub'[t].pc = "idle") =>
                /\ pub'[t].mws[Len(pub'[t].mws)].out \in {"None", "raise"}
                /\ pub'[t].entered = <<>>
                /\ result_queue' = result_queue
                /\ total_errors' = total_errors +
                      (IF pub'[t].mws[Len(pub'[t].mws)].out = "raise" THEN 1 ELSE 0)]_vars

\* with two middlewares and a subscribed handler, a publish was ended by the
\* second middleware raising after the first had passed the event on
C16_Witness ==
    /\ middlewares = <<"m2", "m1">>
    /\ "MessageEvent" \in DOMAIN subscribers
    /\ pub["t1"].pc = "idle"
    /\ pub["t1"].outcome = "mw_error"
    /\ pub["t1"].mws = <<[name |-> "m2", out |-> "pass"], [name |-> "m1", out |-> "raise"]>>
    /\ total_errors = 1
    /\ result_queue = <<>>

\* ------------------------------------------------------------------ C17
\* C17: a plugin whose declared compatibility is lower than
\* PLUGINMANAGER_META is never Loaded.
C17_CompatibilityGate ==
    \A p \in Plugins : compatibility[p] < PLUGINMANAGER_META => ~is_loaded(p)

Unloaded(p) ==
    /\ p \in DOMAIN entries
    /\ entries[p].state = "unloaded"
    /\ p \notin loaded_modules

\* nothing that plugin p registered is in the command table or subscribed
Purged(cmds, subs, p) ==
    /\ plugin_commands(p) \cap DOMAIN cmds = {}
    /\ \A ty \in DOMAIN subs : \A i \in 1..Len(subs[ty]) :
           subs[ty][i].handler \notin plugin_handlers(p)

\* C19: a successful unload_plugin(P) leaves no command and no subscription
\* that P registered; afterwards execute_command of P's command returns "No
\* command found" and a publish that starts no longer finds P's handlers.
C19_UnloadPurges ==
    [][\A p \in Plugins :
         /\ (is_loaded(p) /\ Unloaded(p)') => Purged(commands', subscribers', p)
         /\ (Unloaded(p) /\ last' # last /\ last'.command \in plugin_commands(p))
                => last'.result = "No command found"
         /\ \A t \in Tasks :
               (Unloaded(p) /\ pub[t].pc = "idle" /\ pub'[t].pc = "handlers")
                   => \A i \in 1..Len(pub'[t].start) :
                          pub'[t].start[i].handler \notin plugin_handlers(p)]_vars

\* ------------------------------------------------------------------ C20
\* C20: every mutating permission operation persists the store so that at
\* every instant, a kill in the middle of save_permissions included, the
\* permission file holds the complete previous contents or the complete new
\* contents.
C20_AtomicSave ==
    [][perm_file' \in {perm_file, save_permissions(user_perms', group_perms')}]_vars

\* ------------------------------------------------------------------ C21
\* C21: every MessageRequest and ActionRequest dispatched on the bus whose
\* lower-cased platform matches a registered adapter results in a call of
\* that adapter's handle_outgoing_message, respectively
\* handle_outgoing_action; a request for a platform without an adapter is
\* dropped without error.
C21_RequestRouting ==
    \A i \in 1..Len(am_calls) :
        LET c == am_calls[i]
        IN /\ c.matched =>
                 c.called = (IF c.handler = "handle_message"
                             THEN "handle_outgoing_message"
                             ELSE "handle_outgoing_action")
           /\ ~c.matched => c.called = "none" /\ c.result = "None"
           /\ ~c.matched => total_errors = c.errors

\* ------------------------------------------------------------------ C22
\* C22: when the adapter method exceeds the request timeout or raises,
\* handle_message / handle_action yields a BotResponse with success = false
\* and the exception never reaches publish: total_errors is not incremented.
C22_FailedResponse ==
    \A i \in 1..Len(am_calls) :
        am_calls[i].out \in {"raise", "timeout"} =>
            /\ am_calls[i].result = "BotResponse"
            /\ total_errors = am_calls[i].errors

\* ------------------------------------------------------------------ C23
\* C23: a Bot keyed by a driver's self_id is in its adapter's directory and
\* in the global directory exactly while that driver has a live connection,
\* and the two directories agree.
C23_BotDirectories ==
    \A d \in Drivers :
        /\ (self_id(d) \in adapter_bots[adapter_of(d)]) <=> (live[d] # {})
        /\ (self_id(d) \in DOMAIN manager_bots) <=> (live[d] # {})

\* ------------------------------------------------------------------ C24
\* C24: execute_function never raises to its caller: an exception of the
\* function yields null, and so does a name that is not registered or was
\* unregistered by auto-disable.
C24_NeverRaises ==
    /\ last_fn.raised = "none"
    /\ last_fn.out = "raise" => last_fn.result = "None"

\* ------------------------------------------------------------------ C25
\* C25: the chat-command bridge executes a command only for a text that
\* starts with "!" and a sender who passes the chat_command.execute check; a
\* sender without that permission gets no handler call and no reply, and a
\* text not starting with "!" gets nothing.
C25_ChatGate ==
    /\ last_chat.executed =>
           StartsWithBang(Strip(last_chat.text)) /\ last_chat.holds_execute
    /\ (last_chat.reply # "none" /\ ~last_chat.holds_execute) =>
           ~last_chat.executed /\ last_chat.reply = "None"
    /\ (last_chat.reply # "none" /\ ~StartsWithBang(Strip(last_chat.text))) =>
           last_chat.reply = "None"

\* ------------------------------------------------------------------ C26
\* C26: for text, image and at segments, decoding an inbound OneBot segment
\* and encoding it again yields a segment with the same type and the same
\* data keys and values.
C26_RoundTrip ==
    codec.pc = "encoded" =>
        /\ Len(codec.outbound) = Len(codec.inbound)
        /\ \A i \in 1..Len(codec.inbound) :
               /\ codec.outbound[i].type = codec.inbound[i].type
               /\ DOMAIN codec.outbound[i].data = DOMAIN codec.inbound[i].data
               /\ \A k \in DOMAIN codec.inbound[i].data :
                      codec.outbound[i].data[k] = codec.inbound[i].data[k]

\* ------------------------------------------------------------------ C27
\* the state changes of a plugin entry that the lifecycle allows
LifecycleSteps ==
    {<<"unloaded", "loading">>, <<"loading", "loaded">>, <<"loading", "error">>,
     <<"loaded", "unloaded">>, <<"error", "unloaded">>, <<"unloaded", "disabled">>}

\* C27: a plugin's registry state changes only along Unloaded -> Loading ->
\* Loaded or Error -> Unloaded: Loaded and Error are entered only from
\* Loading, and Disabled is entered only from Unloaded.
C27_Lifecycle ==
    [][\A p \in DOMAIN entries :
         LET old == entries[p].state
             new == entries'[p].state
         IN /\ (new # old /\ new \in {"loaded", "error"}) => old = "loading"
            /\ (new # old /\ new = "disabled") => old = "unloaded"
            /\ (new # old /\ old \notin {"disabled", "enabled"}
                          /\ new \notin {"disabled", "enabled"})
                   => <<old, new>> \in LifecycleSteps]_vars

\* ------------------------------------------------------------------ C28
\* C28: disable_plugin on a Loaded plugin unloads it before marking it
\* Disabled; when that unload is refused the plugin stays Loaded and its
\* directory keeps its name; enable_plugin loads nothing: the plugin is not
\* Loaded after it and no load has been started or finished by it.
C28_DisableEnable ==
    [][\A p \in Plugins :
         /\ (is_loaded(p) /\ dirs[p] = "enabled" /\ dirs'[p] = "disabled") =>
                /\ entries'[p].state = "disabled"
                /\ p \notin loaded_set'
                /\ p \notin loaded_modules'
         /\ (is_loaded(p) /\ \E q \in get_loaded_plugins : p \in declared[q]) =>
                /\ entries'[p].state = "loaded"
                /\ dirs'[p] = dirs[p]
         /\ (dirs[p] = "disabled" /\ dirs'[p] = "enabled") =>
                /\ p \in DOMAIN entries' => entries'[p].state # "loaded"
                /\ loaded_modules' = loaded_modules
                /\ loaded_set' = loaded_set
                /\ lp' = lp
                /\ la' = la]_vars

\* a plugin that the bulk load had left Loaded has been disabled by the only
\* single-plugin call so far: its directory is renamed, its entry is Disabled
\* and neither the registry nor the loader holds it
C28_Witness ==
    \E p \in Plugins :
        /\ p \in DOMAIN entries
        /\ entries[p].state = "disabled"
        /\ dirs[p] = "disabled"
        /\ la.ret = "loaded"
        /\ p \in la.loaded
        /\ nops = 1
        /\ p \notin loaded_set
        /\ p \notin loaded_modules

\* ------------------------------------------------------------------ C29
\* the plugins of the layers before the current one whose load has ended
Finished == la.loaded \cup la.failed

\* C29: during load_all_plugins a load task of the current layer starts only
\* when every plugin of every earlier layer has finished loading,
\* successfully or not.
C29_LayerBarrier ==
    [][\A p \in Plugins :
         (/\ la.pc = "gather"
          /\ p \in DOMAIN la.tasks
          /\ la.tasks[p] = "pending"
          /\ la'.pc = "gather"
          /\ p \in DOMAIN la'.tasks
          /\ la'.tasks[p] # "pending")
             => \A j \in 1..(la.li - 1) : la.layers[j] \subseteq Finished]_vars

\* a load of the second layer is running after a first layer of two plugins,
\* one of which loaded and one of which failed
C29_Witness ==
    /\ la.pc = "gather"
    /\ la.li = 2
    /\ \E p \in DOMAIN la.tasks : la.tasks[p] = "running"
    /\ Cardinality(la.layers[1]) = 2
    /\ la.layers[1] \cap la.loaded # {}
    /\ la.layers[1] \cap la.failed # {}

\* ------------------------------------------------------------------ C30
\* load task p of the current layer has been given its load attempt
Attempted(p) == p \in DOMAIN la.tasks /\ la.tasks[p] # "pending"

\* C30: at no time are more than max_concurrent_loads loads in progress in
\* load_plugins_concurrently, however many plugins the layer contains, and
\* every plugin of the layer is eventually given a load attempt.
C30_BoundedConcurrency ==
    /\ [](Running <= max_concurrent_loads)
    /\ \A p \in LayerPlugins :
           (la.pc = "gather" /\ p \in DOMAIN la.tasks) ~> Attempted(p)

\* the semaphore is exhausted while a plugin of the layer still waits
C30_Witness ==
    /\ la.pc = "gather"
    /\ Cardinality(DOMAIN la.tasks) > max_concurrent_loads
    /\ Running = max_concurrent_loads
    /\ \E p \in DOMAIN la.tasks : la.tasks[p] = "pending"

\* ------------------------------------------------------------------ C31
\* C31: when the module's top-level execution or one of its on_load hooks
\* raised during a bulk load, the results of the layer leave that plugin in
\* state Error, not Loaded, and the other plugins of the layer whose load
\* succeeded are Loaded.
C31_LoadErrors ==
    [][(la.pc = "gather" /\ (la'.pc = "idle" \/ la'.li # la.li)) =>
          \A p \in DOMAIN la.tasks \cap DOMAIN entries' :
              IF p \in la.exec_failed \cup la.hook_failed
              THEN entries'[p].state = "error"
              ELSE la.tasks[p] = "ok" => entries'[p].state = "loaded"]_vars

\* ------------------------------------------------------------------ C32
\* plugin p is neither on a cycle of declared dependencies nor dependent,
\* directly or through other plugins, on a plugin that is
Unaffected(p) == \A q \in DeclaredClosure({p}) : ~OnDeclaredCycle(q)

\* C32: a dependency cycle keeps only the plugins of the affected component
\* from loading: when load_all_plugins has returned, every enabled plugin
\* that is neither on a cycle nor dependent on one has been given its load.
C32_CycleIsLocal ==
    la.ret \in {"loaded", "cycle"} =>
        \A p \in Discovered : Unaffected(p) => p \in la.loaded \cup la.failed

C40_LoadedSet ==
    /\ loaded_set = get_loaded_plugins
    /\ Cardinality(loaded_set) = Cardinality(get_loaded_plugins)

\* ------------------------------------------------------------------ C35
\* C35: after unsubscribe(T, h) has returned, h is not entered for any event
\* of type T, a publish that was suspended inside an earlier handler
\* included: a handler that a publish enters is subscribed to the type of
\* the event at that moment.
C35_UnsubscribedNotEntered ==
    [][\A t \in AllTasks :
         Len(pub'[t].entered) = Len(pub[t].entered) + 1 =>
             \E i \in 1..Len(Subs(pub[t].type)) :
                 Subs(pub[t].type)[i].handler =
                     pub'[t].entered[Len(pub'[t].entered)].handler]_vars

\* ------------------------------------------------------------------ C36
\* number of times entry e occurs in sequence s
Occurrences(s, e) == Cardinality({i \in 1..Len(s) : s[i] = e})

\* C36: when a publish whose event type had no unsubscribe meanwhile runs to
\* its end, each subscription that was in the list when the handler loop
\* began has been entered exactly once, whatever was subscribed meanwhile.
C36_EnteredOnce ==
    [][\A t \in AllTasks :
         (Exhausted(t) /\ pub[t].alias /\ pub'[t].pc = "idle") =>
             \A i \in 1..Len(pub[t].start) :
                 Occurrences(pub[t].entered, pub[t].start[i]) = 1]_vars

\* ------------------------------------------------------------------ C37
\* C37: the crash ledger counts per registration. A command that is
\* registered while the counter of its name is 3 or more was registered
\* after an auto-disable of that name; it is unregistered only after three
\* raises of its own, that is, in a call that brings the counter of the name
\* to 6 or more.
C37_PerRegistration ==
    [][\A c \in CommandNames :
         (/\ c \in DOMAIN commands
          /\ crash_times["command"][c] >= 3
          /\ c \notin DOMAIN commands')
             => crash_times'["command"][c] >= 6]_vars

\* ------------------------------------------------------------------ C34
\* number of GenericEvent subscriptions of handler w in the lists subs
Held(subs, w) ==
    IF "GenericEvent" \in DOMAIN subs
    THEN Cardinality({i \in 1..Len(subs["GenericEvent"]) :
                         subs["GenericEvent"][i].handler = w})
    ELSE 0

\* C34: when a handler of an event name leaves the registry, the bus holds
\* no subscription of its wrapper; a publish of a GenericEvent that begins
\* while the handler is not registered does not find the wrapper; and a pair
\* that is not registered can be registered (again): it is then stored and
\* its wrapper is subscribed once.
C34_UnregisterEvent ==
    [][\A e \in EventNames, fn \in EventFunctions :
         /\ (fn \in event_handlers[e] /\ fn \notin event_handlers'[e]) =>
                Held(subscribers', wrapper[e][fn]) = 0
         /\ \A t \in Tasks :
                (/\ pub[t].pc = "idle"
                 /\ pub'[t].pc = "handlers"
                 /\ fn \notin event_handlers[e])
                    => \A i \in 1..Len(pub'[t].start) :
                           pub'[t].start[i].handler # wrapper[e][fn]
         /\ (fn \notin event_handlers[e] /\ fn \in event_handlers'[e]) =>
                Held(subscribers', wrapper[e][fn]) = 1]_vars

\* f was registered for e1 twice, with an unregister_event in between, and a
\* publish of e1 that began afterwards is in the wrapper of the second
\* registration, the only GenericEvent subscription there is
C34_Witness ==
    /\ nsub = 2
    /\ event_handlers = [e \in EventNames |-> IF e = "e1" THEN {"f"} ELSE {}]
    /\ crash_times["event"]["e1"] = 0
    /\ Len(Subs("GenericEvent")) = 1
    /\ Subs("GenericEvent")[1].handler = wrapper["e1"]["f"]
    /\ Subs("GenericEvent")[1].stamp = 2
    /\ pub["t1"].pc = "in_handler"
    /\ pub["t1"].start = Subs("GenericEvent")
    /\ total_events_processed = 1

\* ------------------------------------------------------------------ C38
\* C38: auto-disable of an event listener is scoped to that listener: when a
\* raise of one handler brings the crash counter of its event name to 3, the
\* other handlers registered for that event name stay registered and
\* subscribed.
C38_ScopedAutoDisable ==
    [][\A e \in EventNames, fn \in EventFunctions, t \in Tasks :
         (/\ crash_times["event"][e] = 2
          /\ crash_times'["event"][e] = 3
          /\ pub[t].pc = "in_handler"
          /\ pub[t].entered[Len(pub[t].entered)].handler = wrapper[e][fn])
             => \A other \in event_handlers[e] \ {fn} :
                    /\ other \in event_handlers'[e]
                    /\ Held(subscribers', wrapper[e][other]) = 1]_vars

\* ------------------------------------------------------------------ C39
\* load_plugin(p) passes its checks: p is enabled and compatible and every
\* declared dependency of p is Loaded
Eligible(p) ==
    /\ dirs[p] = "enabled"
    /\ compatibility[p] >= PLUGINMANAGER_META
    /\ \A d \in declared[p] : is_loaded(d)

\* C39: load_plugin(B) for an enabled, compatible, not yet Loaded B whose
\* declared dependencies are all Loaded goes on to execute B's module (the
\* step without which B cannot end in state Loaded).
C39_LoadPlugin ==
    [][(nops' = nops + 1 /\ lp["B"] = "idle" /\ Eligible("B") /\ ~is_loaded("B"))
          => lp'["B"] = "running"]_vars

====
